---- MODULE Spec2Model ----
(***************************************************************************)
(* Selection and ignore-filtering engine of promptcode-vscode:             *)
(* IgnoreHelper (ignoreHelper.ts), FileExplorerProvider (fileExplorer.ts)  *)
(* and the handlers of extension.ts that drive them.                       *)
(*                                                                         *)
(* A name is a sequence of characters, a path a sequence of names, so that *)
(* String.startsWith and String.includes are computed on characters.       *)
(***************************************************************************)
EXTENDS Integers, Sequences, FiniteSets, TLC

VARIABLES
    fs,                 \* the file system: path -> [kind, ok, rules]
    wsFolders,          \* vscode.workspace.workspaceFolders (sequence of root paths)
    cfgRespect,         \* the setting promptcode.respectGitignore
    ihRoots,            \* IgnoreHelper.workspaceRoots
    promptcodeIgnores,  \* IgnoreHelper.promptcodeIgnores : root -> rules
    gitignores,         \* IgnoreHelper.gitignores : directory -> rules
    respectGitignore,   \* IgnoreHelper.respectGitignore
    reloads,            \* IgnoreHelper.initialize() calls in flight
    feRoots,            \* FileExplorerProvider.workspaceRoots
    checkedItems,       \* the exported map checkedItems : path -> BOOLEAN
    tasks,              \* selection operations in flight (toggles, toggleAll, parent chains)
    searchTerm,         \* FileExplorerProvider.searchTerm
    includedPaths,      \* FileExplorerProvider.includedPaths
    rebuilds,           \* rebuildSearchPaths() calls in flight
    cachedEntries,      \* FileExplorerProvider.cachedEntries : directory -> Dirent[]
    listing,            \* the last getChildren(directory) call and what it returned
    obs,                \* what the last completed step did (read by the properties)
    files,              \* the files' content and mtime: path -> [content, mtime]
    clock,              \* the time of the last file modification
    tokenCache,         \* the module's tokenCache : path -> [count, mtime, size]
    diskCache,          \* the document token-cache.json (NoDoc when missing)
    extensionVersion,   \* the module's extensionVersion (Undefined when not found)
    saveCacheTimer,     \* the module's saveCacheTimer is set
    timeouts,           \* the setTimeout callbacks of scheduleCacheSave still pending
    cacheOps,           \* loads, saves and unlinks of the document in flight
    queries,            \* countTokensWithCache calls in flight
    answers,            \* what the last resolved countTokensWithCache call did
    gets,               \* promptcode.getSelectedFiles calls awaiting their Promise.all
    expandedItems,      \* the exported map expandedItems : path -> BOOLEAN
    expandTimer,        \* a setTimeout callback of setSearchTerm is pending
    sweeps,             \* expandAll / expandMatchingDirectories calls in flight
    reads,              \* readdir calls of getChildren in flight
    panel               \* the last updateSelectedFiles message posted to the webview

vars == <<fs, wsFolders, cfgRespect, ihRoots, promptcodeIgnores, gitignores,
          respectGitignore, reloads, feRoots, checkedItems, tasks, searchTerm,
          includedPaths, rebuilds, cachedEntries, listing, obs, files, clock,
          tokenCache, diskCache, extensionVersion, saveCacheTimer, timeouts, cacheOps,
          queries, answers, gets, panel, expandedItems, expandTimer, sweeps, reads>>

viewVars == <<expandedItems, expandTimer, sweeps, reads>>
ruleVars == <<ihRoots, promptcodeIgnores, gitignores, respectGitignore, reloads>>
selVars == <<checkedItems, tasks>>
searchVars == <<searchTerm, includedPaths, rebuilds>>
listVars == <<cachedEntries, listing>>
aggVars == <<gets, panel>>
cacheVars == <<files, clock, tokenCache, diskCache, extensionVersion, saveCacheTimer, timeouts,
               cacheOps, queries, answers, aggVars>>
treeVars == <<wsFolders, cfgRespect, viewVars, ruleVars, feRoots, selVars, searchVars, listVars, obs>>

-----------------------------------------------------------------------------
(* Bounds *)

\* selection operations that may be in flight together in SpecConc
MaxTasks == 2

\* rebuildSearchPaths calls in flight together (SpecSearchConc)
MaxRebuilds == 2

\* loads, saves and unlinks of the cache document in flight together
MaxCacheOps == 2

\* modifications of a file (the values of mtime)
MaxClock == 2

\* the directories beneath the Root of the wide tree (SpecExpandAll)
WideCount == 100

\* expandAll calls in flight together (SpecExpandAll)
MaxSweeps == 1

\* readdirs of getChildren in flight together (SpecRead)
MaxReads == 2

\* initialize() calls in flight at a time
MaxReloads == 2

-----------------------------------------------------------------------------
(* Names and paths *)

nP    == <<"p">>
nP2   == <<"p", "2">>
nA    == <<"a">>
nB    == <<"b">>
nE    == <<"e">>
nXtxt == <<"x", ".", "t", "x", "t">>
nYtxt == <<"y", ".", "t", "x", "t">>
nYbin == <<"y", ".", "b", "i", "n">>
nZmd  == <<"Z", ".", "m", "d">>
nGitignore == <<".", "g", "i", "t", "i", "g", "n", "o", "r", "e">>
nPromptcodeIgnore ==
    <<".", "p", "r", "o", "m", "p", "t", "c", "o", "d", "e", "_",
      "i", "g", "n", "o", "r", "e">>
nNodeModules == <<"n", "o", "d", "e", "_", "m", "o", "d", "u", "l", "e", "s">>
nDotGit == <<".", "g", "i", "t">>

FsRoot == <<>>
pP    == <<nP>>
pP2   == <<nP2>>
pA    == <<nP, nA>>
pB    == <<nP, nB>>
pE    == <<nP, nE>>
pAX   == <<nP, nA, nXtxt>>
pAYbin == <<nP, nA, nYbin>>
pBY   == <<nP, nB, nYtxt>>
pEE   == <<nP, nE, nE>>
pEYbin == <<nP, nE, nYbin>>
pAZ   == <<nP, nA, nZmd>>
pP2X  == <<nP2, nXtxt>>
pP2Ybin == <<nP2, nYbin>>
pP2A  == <<nP2, nA>>
pP2AX == <<nP2, nA, nXtxt>>

\* path.dirname: the parent of a path; the file system root is its own parent
Dirname(p) == IF p = <<>> THEN <<>> ELSE SubSeq(p, 1, Len(p) - 1)

\* path.basename
Basename(p) == IF p = <<>> THEN <<>> ELSE p[Len(p)]

\* path.join(dir, name)
Join(d, n) == Append(d, n)

\* the string of a path: "/" for the file system root, else "/n1/n2..."
RECURSIVE PathStr(_)
PathStr(p) ==
    IF p = <<>> THEN <<"/">>
    ELSE IF Len(p) = 1 THEN <<"/">> \o p[1]
    ELSE PathStr(Dirname(p)) \o <<"/">> \o p[Len(p)]

\* String.prototype.startsWith on character sequences
StartsWith(s, t) == Len(t) <= Len(s) /\ SubSeq(s, 1, Len(t)) = t

\* a.startsWith(b) on the strings of two paths
PathStartsWith(a, b) == StartsWith(PathStr(a), PathStr(b))

\* b is a or an ancestor directory of a (containment by path components)
IsUnder(a, b) == Len(b) <= Len(a) /\ SubSeq(a, 1, Len(b)) = b

Range(s) == {s[i] : i \in 1..Len(s)}

\* the elements of sequence s that satisfy Test, in order
SelectSeqBy(s, keep) == SelectSeq(s, LAMBDA x : x \in keep)

-----------------------------------------------------------------------------
(* The file system *)

Dir == [kind |-> "dir", ok |-> TRUE, rules |-> <<>>]
File == [kind |-> "file", ok |-> TRUE, rules |-> <<>>]
RuleFile(r) == [kind |-> "file", ok |-> TRUE, rules |-> r]
NoFile == [kind |-> "none", ok |-> FALSE, rules |-> <<>>]

\* the order in which fs.promises.readdir delivers entries
NodeOrder ==
    << pP, pP2,
       <<nP, nPromptcodeIgnore>>, <<nP, nGitignore>>, pA, pB, pE,
       <<nP, nA, nGitignore>>, pAX, pAYbin, pAZ, pBY,
       pEE, pEYbin,
       <<nP2, nPromptcodeIgnore>>, <<nP2, nGitignore>>, pP2X, pP2Ybin, pP2A, pP2AX >>

Exists(p) == p \in DOMAIN fs
IsDirectory(p) == Exists(p) /\ fs[p].kind = "dir"
IsFile(p) == Exists(p) /\ fs[p].kind = "file"

\* the wide tree: WideCount directories /p/d000, /p/d001, ... each with a
\* file f
Digit(i) == <<"0", "1", "2", "3", "4", "5", "6", "7", "8", "9">>[(i % 10) + 1]
nD(i) == <<"d", Digit(i \div 100), Digit(i \div 10), Digit(i)>>
nF == <<"f">>
pD(i) == <<nP, nD(i)>>
pDF(i) == <<nP, nD(i), nF>>

\* the readdir order of the wide tree's entries in d
WideOrder(d) ==
    IF pD(0) \notin DOMAIN fs THEN <<>>
    ELSE IF d = pP THEN [i \in 1..WideCount |-> pD(i - 1)]
    ELSE <<Join(d, nF)>>

\* the entries of directory d, as paths, in readdir order
Entries(d) ==
    SelectSeqBy(NodeOrder \o WideOrder(d), {p \in DOMAIN fs : p # <<>> /\ Dirname(p) = d})

\* fs.promises.readdir(d) resolves unless d is missing, no directory or unreadable
ReaddirOk(d) == IsDirectory(d) /\ fs[d].ok

\* fs.promises.access + readFile of a rule file succeed
ReadFileOk(p) == IsFile(p) /\ fs[p].ok

-----------------------------------------------------------------------------
(* Rule files and the matcher built by ignore.default().add(content) *)

\* a pattern line: `n` (k = "name"), `n/` (k = "dir"), `*n` (k = "ext"),
\* `!n` (k = "neg")
Pat(k, n) == [k |-> k, n |-> n]

EndsWith(s, t) == Len(t) <= Len(s) /\ SubSeq(s, Len(s) - Len(t) + 1, Len(s)) = t

\* the regular expression of one rule tested on a path whose last component is
\* comp; asDir: the tested path ends with "/" (a parent directory)
RuleMatches(rule, comp, asDir) ==
    CASE rule.k = "name" -> comp = rule.n
      [] rule.k = "neg"  -> comp = rule.n
      [] rule.k = "dir"  -> asDir /\ comp = rule.n
      [] rule.k = "ext"  -> EndsWith(comp, rule.n)

\* Ignore._testOne: the last matching rule decides, a negative rule un-ignores
RECURSIVE TestOneFrom(_, _, _, _)
TestOneFrom(rules, comp, asDir, ignored) ==
    IF rules = <<>> THEN ignored
    ELSE TestOneFrom(Tail(rules), comp, asDir,
                     IF RuleMatches(rules[1], comp, asDir)
                     THEN rules[1].k # "neg" ELSE ignored)

TestOne(rules, comp, asDir) == TestOneFrom(rules, comp, asDir, FALSE)

\* Ignore.ignores(rel): every parent directory of rel is tested first, as a
\* directory; a path below an ignored directory is ignored
Ignores(rules, rel) ==
    \/ \E k \in 1..(Len(rel) - 1) : TestOne(rules, rel[k], TRUE)
    \/ TestOne(rules, rel[Len(rel)], FALSE)

\* DEFAULT_IGNORE_PATTERNS, abridged to the patterns that match a name of the
\* model: *.bin, node_modules/, .git/
DEFAULT_IGNORE_PATTERNS ==
    << Pat("ext", <<".", "b", "i", "n">>),
       Pat("dir", nNodeModules),
       Pat("dir", nDotGit) >>

-----------------------------------------------------------------------------
(* IgnoreHelper *)

\* vscode.workspace.getWorkspaceFolder(uri): the innermost workspace folder
\* that contains the path, <<"none">> when there is none
ContainingFolders(p) == {r \in Range(wsFolders) : IsUnder(p, r)}
HasWorkspaceFolder(p) == ContainingFolders(p) # {}
GetWorkspaceFolder(p) ==
    CHOOSE r \in ContainingFolders(p) :
        \A r2 \in ContainingFolders(p) : Len(r2) <= Len(r)

\* the loop of shouldIgnore over the .gitignore matchers g, from currentDir upward
RECURSIVE GitignoreWalk(_, _, _, _)
GitignoreWalk(g, currentDir, filePath, workspaceRoot) ==
    IF ~PathStartsWith(currentDir, workspaceRoot) THEN FALSE
    ELSE IF /\ currentDir \in DOMAIN g
            /\ Ignores(g[currentDir],
                       SubSeq(filePath, Len(currentDir) + 1, Len(filePath)))
         THEN TRUE
    ELSE IF Dirname(currentDir) = currentDir THEN FALSE
    ELSE GitignoreWalk(g, Dirname(currentDir), filePath, workspaceRoot)

\* shouldIgnore without its test of respectGitignore: the .gitignore matchers
\* are consulted whatever the setting is
ShouldIgnoreWithAnySetting(pc, g, resp, filePath) ==
    IF ~HasWorkspaceFolder(filePath) THEN FALSE
    ELSE LET workspaceRoot == GetWorkspaceFolder(filePath)
             relativePath == SubSeq(filePath, Len(workspaceRoot) + 1, Len(filePath))
         IN  IF relativePath = <<>> THEN FALSE
             ELSE IF /\ workspaceRoot \in DOMAIN pc
                     /\ Ignores(pc[workspaceRoot], relativePath)
                  THEN TRUE
             ELSE GitignoreWalk(g, Dirname(filePath), filePath, workspaceRoot)

\* IgnoreHelper.shouldIgnore(filePath) on the matcher maps pc and g and the
\* field respectGitignore = resp
ShouldIgnoreWith(pc, g, resp, filePath) ==
    IF ~HasWorkspaceFolder(filePath) THEN FALSE
    ELSE LET workspaceRoot == GetWorkspaceFolder(filePath)
             relativePath == SubSeq(filePath, Len(workspaceRoot) + 1, Len(filePath))
         IN  IF relativePath = <<>> THEN FALSE
             ELSE IF /\ workspaceRoot \in DOMAIN pc
                     /\ Ignores(pc[workspaceRoot], relativePath)
                  THEN TRUE
             ELSE IF resp
                  THEN GitignoreWalk(g, Dirname(filePath), filePath, workspaceRoot)
             ELSE FALSE

\* IgnoreHelper.shouldIgnore(filePath) in the current state
shouldIgnore(filePath) ==
    ShouldIgnoreWith(promptcodeIgnores, gitignores, respectGitignore, filePath)

\* a function without the keys in ks
Without(f, ks) == [k \in (DOMAIN f) \ ks |-> f[k]]

\* f with key k set to v
Put(f, k, v) == [x \in (DOMAIN f) \cup {k} |-> IF x = k THEN v ELSE f[x]]

\* loadPromptcodeIgnore without its catch for a file that is there but cannot
\* be read: the matcher is built from whatever the file holds
LoadedPromptcodeIgnoreUnchecked(workspaceRoot) ==
    LET ignoreFilePath == Join(workspaceRoot, nPromptcodeIgnore)
    IN  IF IsFile(ignoreFilePath) THEN fs[ignoreFilePath].rules
        ELSE DEFAULT_IGNORE_PATTERNS

\* IgnoreHelper.loadPromptcodeIgnore(workspaceRoot): the matcher it stores
LoadedPromptcodeIgnore(workspaceRoot) ==
    LET ignoreFilePath == Join(workspaceRoot, nPromptcodeIgnore)
    IN  IF ReadFileOk(ignoreFilePath) THEN fs[ignoreFilePath].rules
        ELSE DEFAULT_IGNORE_PATTERNS

\* the first lines of findAllGitignores: the matchers it deletes
ClearedGitignores(g, workspaceRoot) ==
    Without(g, {dir \in DOMAIN g : PathStartsWith(dir, workspaceRoot)})

\* findGitignores(dir), up to its recursive calls: the matcher map after the
\* .gitignore of dir was looked for and loaded
LoadedGitignore(g, dir) ==
    LET gitignorePath == Join(dir, nGitignore)
    IN  IF ReadFileOk(gitignorePath) THEN Put(g, dir, fs[gitignorePath].rules)
        ELSE g

\* findGitignores(dir): the subdirectories it descends into, in order
Subdirs(dir) ==
    IF ReaddirOk(dir)
    THEN SelectSeqBy(Entries(dir),
                     {e \in DOMAIN fs : /\ fs[e].kind = "dir"
                                        /\ Basename(e) # nNodeModules
                                        /\ Basename(e) # nDotGit})
    ELSE <<>>

-----------------------------------------------------------------------------
(* FileExplorerProvider: the selection store *)

EmptyMap == <<>>

\* checkedItems.get(p) || false
IsChecked(ci, p) == p \in DOMAIN ci /\ ci[p]

\* a Dirent of fs.promises.readdir(dir, {withFileTypes: true})
Dirent(e) == [p |-> e, d |-> fs[e].kind = "dir"]

Dirents(es) == [i \in 1..Len(es) |-> Dirent(es[i])]

\* a call of setAllChildrenState / processDirectory that awaits readdir(dir)
Awaiting(dir) == [dir |-> dir, todo |-> <<>>, read |-> FALSE]

\* the cascade's loop without its "skip ignored items" test
RECURSIVE RunCascadeNoSkip(_, _, _)
RunCascadeNoSkip(stack, ci, isChecked) ==
    IF stack = <<>> THEN [stack |-> stack, ci |-> ci]
    ELSE LET top == stack[1] IN
         IF top.todo = <<>> THEN RunCascadeNoSkip(Tail(stack), ci, isChecked)
         ELSE LET entry == top.todo[1]
                  rest == <<[top EXCEPT !.todo = Tail(top.todo)]>> \o Tail(stack)
              IN  IF entry.d
                  THEN [stack |-> <<Awaiting(entry.p)>> \o rest,
                        ci |-> Put(ci, entry.p, isChecked)]
                  ELSE RunCascadeNoSkip(rest, Put(ci, entry.p, isChecked), isChecked)

\* the for loop of setAllChildrenState (and of toggleAll's processDirectory)
\* from the moment a readdir has resolved until the next readdir is awaited:
\* stack holds the active calls, innermost first; ci is checkedItems
RECURSIVE RunCascade(_, _, _)
RunCascade(stack, ci, isChecked) ==
    IF stack = <<>> THEN [stack |-> stack, ci |-> ci]
    ELSE LET top == stack[1] IN
         IF top.todo = <<>> THEN RunCascade(Tail(stack), ci, isChecked)
         ELSE LET entry == top.todo[1]
                  rest == <<[top EXCEPT !.todo = Tail(top.todo)]>> \o Tail(stack)
              IN  IF shouldIgnore(entry.p) THEN RunCascade(rest, ci, isChecked)
                  ELSE IF entry.d
                       THEN [stack |-> <<Awaiting(entry.p)>> \o rest,
                             ci |-> Put(ci, entry.p, isChecked)]
                       ELSE RunCascade(rest, Put(ci, entry.p, isChecked), isChecked)

\* readdir of the innermost call resolves (its entries are taken) or rejects
\* (the call's catch block ends it), then the loop runs on
ResumeCascade(stack, ci, isChecked) ==
    LET top == stack[1] IN
    IF ReaddirOk(top.dir)
    THEN RunCascade(<<[top EXCEPT !.todo = Dirents(Entries(top.dir)), !.read = TRUE]>>
                        \o Tail(stack), ci, isChecked)
    ELSE RunCascade(Tail(stack), ci, isChecked)

\* getChildrenStates(dirPath): the states of the entries that are not ignored
GetChildrenStates(ci, dirPath) ==
    IF ReaddirOk(dirPath)
    THEN {IsChecked(ci, e) : e \in {x \in Range(Entries(dirPath)) : ~shouldIgnore(x)}}
    ELSE {}

\* updateParentChain(dirPath), from the resolution of getChildrenStates to the
\* recursive call: the map after the directory's state was derived
DerivedParent(ci, dirPath) ==
    LET childStates == GetChildrenStates(ci, dirPath) IN
    IF childStates = {} THEN ci
    ELSE IF childStates = {FALSE} THEN Put(ci, dirPath, FALSE)
    ELSE Put(ci, dirPath, TRUE)

\* a selection operation in flight
\*   kind    "toggle" (processCheckboxChange), "all" (toggleAll) or
\*           "chain" (updateParentStates)
\*   stack   the cascade's active calls
\*   roots   the Roots toggleAll has still to process
\*   chain   <<dir>>: updateParentChain(dir) is to run or awaits its readdir
Task(kind, isChecked, stack, roots, chain) ==
    [kind |-> kind, checked |-> isChecked, stack |-> stack, roots |-> roots,
     chain |-> chain]

\* updateParentChain(dirPath) as called: it returns at once without Roots
ChainCall(dirPath) == IF feRoots = <<>> THEN <<>> ELSE <<dirPath>>

\* what follows a finished cascade: toggleAll goes to its next Root,
\* processCheckboxChange calls updateParentChain
AfterCascade(t, ci) ==
    IF t.kind = "all" /\ t.roots # <<>>
    THEN [t |-> [t EXCEPT !.stack = <<Awaiting(t.roots[1])>>, !.roots = Tail(t.roots)],
          ci |-> Put(ci, t.roots[1], t.checked)]
    ELSE [t |-> [t EXCEPT !.chain = IF t.chain = <<>> THEN <<>> ELSE ChainCall(t.chain[1])],
          ci |-> ci]

\* a task has nothing left to await
Finished(t) == t.stack = <<>> /\ t.chain = <<>>

\* one resumption of task t on the map ci: [t, ci] after it
StepTask(t, ci) ==
    IF t.stack # <<>>
    THEN LET r == ResumeCascade(t.stack, ci, t.checked) IN
         IF r.stack # <<>> THEN [t |-> [t EXCEPT !.stack = r.stack], ci |-> r.ci]
         ELSE AfterCascade([t EXCEPT !.stack = <<>>], r.ci)
    ELSE LET dirPath == t.chain[1]
             parentDir == Dirname(dirPath)
         IN  [t |-> [t EXCEPT !.chain = IF parentDir # dirPath
                                        THEN ChainCall(parentDir) ELSE <<>>],
              ci |-> DerivedParent(ci, dirPath)]

\* sequence s without its i-th element
RemoveAt(s, i) == SubSeq(s, 1, i - 1) \o SubSeq(s, i + 1, Len(s))

\* processCheckboxChange(item, isChecked) up to its first await
StartToggle(fullPath, isDirectory, isChecked) ==
    LET ci == Put(checkedItems, fullPath, isChecked)
        t == IF isDirectory
             THEN Task("toggle", isChecked, <<Awaiting(fullPath)>>, <<>>,
                       <<Dirname(fullPath)>>)
             ELSE Task("toggle", isChecked, <<>>, <<>>, ChainCall(Dirname(fullPath)))
    IN  [t |-> t, ci |-> ci]

\* toggleAll(checked) up to its first await
StartToggleAll(isChecked) ==
    [t |-> Task("all", isChecked, <<Awaiting(feRoots[1])>>, Tail(feRoots), <<>>),
     ci |-> Put(checkedItems, feRoots[1], isChecked)]

-----------------------------------------------------------------------------
(* FileExplorerProvider: the tree walker and the search overlay *)

\* isDirectoryEffectivelyEmpty without the recursion into subdirectories: a
\* non-ignored subdirectory counts as content
isDirectoryEmptyShallow(dirPath) ==
    IF ~ReaddirOk(dirPath) THEN FALSE
    ELSE {e \in Range(Entries(dirPath)) : ~shouldIgnore(e)} = {}

\* isDirectoryEffectivelyEmpty(dirPath); a failed readdir is caught and
\* answered "not empty"
RECURSIVE isDirectoryEffectivelyEmpty(_)
isDirectoryEffectivelyEmpty(dirPath) ==
    IF ~ReaddirOk(dirPath) THEN FALSE
    ELSE LET entries == Range(Entries(dirPath))
             visibleEntries == {e \in entries : ~shouldIgnore(e)}
             visibleFiles == {e \in visibleEntries : fs[e].kind # "dir"}
         IN  IF entries = {} THEN TRUE
             ELSE IF visibleEntries = {} THEN TRUE
             ELSE IF visibleFiles # {} THEN FALSE
             ELSE \A e \in visibleEntries : isDirectoryEffectivelyEmpty(e)

\* term.trim() === ''
IsBlank(term) == \A i \in 1..Len(term) : term[i] = " "

\* String.prototype.toLowerCase, on the letters of the model
LowerChar(c) ==
    CASE c = "A" -> "a" [] c = "X" -> "x" [] c = "Z" -> "z" [] c = "M" -> "m"
      [] OTHER -> c

ToLowerCase(str) == [i \in 1..Len(str) |-> LowerChar(str[i])]

\* String.prototype.includes
Includes(str, sub) ==
    \E i \in 0..(Len(str) - Len(sub)) : SubSeq(str, i + 1, i + Len(sub)) = sub

\* entry.name.toLowerCase().includes(this.searchTerm.toLowerCase())
IsMatch(name, term) == Includes(ToLowerCase(name), ToLowerCase(term))

\* the string `${matchPath}:DIR_MATCH`, as a path
DirMatchKey(matchPath) ==
    IF matchPath = <<>> THEN <<<<":", "DIR_MATCH">>>>
    ELSE [matchPath EXCEPT ![Len(matchPath)] = @ \o <<":", "DIR_MATCH">>]

\* the loop of shouldIncludeInSearch over the parent directories
RECURSIVE UnderDirMatch(_, _)
UnderDirMatch(inc, currentPath) ==
    IF currentPath = Dirname(currentPath) THEN FALSE
    ELSE IF DirMatchKey(currentPath) \in inc THEN TRUE
    ELSE UnderDirMatch(inc, Dirname(currentPath))

\* shouldIncludeInSearch without the walk over the parent directories
shouldIncludeDirectOnly(fullPath) ==
    IF IsBlank(searchTerm) THEN TRUE ELSE fullPath \in includedPaths

\* shouldIncludeInSearch(fullPath, isDirectory)
shouldIncludeInSearch(fullPath) ==
    IF IsBlank(searchTerm) THEN TRUE
    ELSE IF fullPath \in includedPaths THEN TRUE
    ELSE UnderDirMatch(includedPaths, Dirname(fullPath))

\* the paths of the Dirents in es that are in keep, in order
DirentPaths(es, keep) ==
    LET kept == SelectSeqBy(es, keep) IN [i \in 1..Len(kept) |-> kept[i].p]

\* processDirectoryEntries without its "filter empty directories" block
processDirectoryEntriesKeepEmpty(directoryPath, entries) ==
    LET all == Range(entries)
        notIgnored == {e \in all : ~shouldIgnore(e.p)}
        filteredEntries == DirentPaths(entries, {e \in notIgnored : e.d})
                               \o DirentPaths(entries, {e \in notIgnored : ~e.d})
    IN  IF ~IsBlank(searchTerm)
        THEN IF shouldIncludeInSearch(directoryPath)
             THEN SelectSeqBy(filteredEntries,
                              {c \in Range(filteredEntries) : shouldIncludeInSearch(c)})
             ELSE <<>>
        ELSE filteredEntries

\* processDirectoryEntries(directoryPath, entries): the paths of the
\* FileItems it returns, in order
processDirectoryEntries(directoryPath, entries) ==
    LET all == Range(entries)
        notIgnored == {e \in all : ~shouldIgnore(e.p)}
        nonEmptyDirs == {e \in notIgnored : e.d /\ ~isDirectoryEffectivelyEmpty(e.p)}
        nonDirEntries == {e \in notIgnored : ~e.d}
        filteredEntries == DirentPaths(entries, nonEmptyDirs)
                               \o DirentPaths(entries, nonDirEntries)
    IN  IF ~IsBlank(searchTerm)
        THEN IF shouldIncludeInSearch(directoryPath)
             THEN SelectSeqBy(filteredEntries,
                              {c \in Range(filteredEntries) : shouldIncludeInSearch(c)})
             ELSE <<>>
        ELSE filteredEntries

\* getChildren(element): the cached Dirents of the directory, or a fresh readdir
EntriesFor(directoryPath) ==
    IF directoryPath \in DOMAIN cachedEntries THEN cachedEntries[directoryPath]
    ELSE Dirents(Entries(directoryPath))

\* getChildren(element) for a directory element: the paths it returns
getChildren(directoryPath) ==
    IF feRoots = <<>> THEN <<>>
    ELSE IF ~Exists(directoryPath) THEN <<>>
    ELSE IF directoryPath \notin DOMAIN cachedEntries /\ ~ReaddirOk(directoryPath)
         THEN <<>>
    ELSE processDirectoryEntries(directoryPath, EntriesFor(directoryPath))

\* the tree view asks for the children of a directory it shows
GetChildren(directoryPath) ==
    /\ listing' = [dir |-> directoryPath, items |-> getChildren(directoryPath)]
    /\ cachedEntries' =
          IF /\ feRoots # <<>>
             /\ Exists(directoryPath)
             /\ directoryPath \notin DOMAIN cachedEntries
             /\ ReaddirOk(directoryPath)
          THEN Put(cachedEntries, directoryPath, Dirents(Entries(directoryPath)))
          ELSE cachedEntries
    /\ UNCHANGED <<cacheVars, fs, wsFolders, cfgRespect, viewVars, ruleVars, feRoots, selVars,
                   searchVars, obs>>

\* a readdir of getChildren in flight: phase "readdir" until the directory
\* has been read (entries: what was read, ok: it could be read), then "done"
\* until getChildren resumes with the result
Read(dir, phase, entries, ok) ==
    [dir |-> dir, phase |-> phase, entries |-> entries, ok |-> ok]

\* getChildren(element) up to its await: the directory exists and is not in
\* cachedEntries
GetChildrenStart(directoryPath) ==
    /\ feRoots # <<>>
    /\ Exists(directoryPath)
    /\ directoryPath \notin DOMAIN cachedEntries
    /\ reads' = Append(reads, Read(directoryPath, "readdir", <<>>, FALSE))
    /\ UNCHANGED <<cacheVars, fs, wsFolders, cfgRespect, expandedItems, expandTimer, sweeps,
                   ruleVars, feRoots, selVars, searchVars, listVars, obs>>

\* getChildren resumes with the readdir result and stores it
GetChildrenStored(r) ==
    /\ cachedEntries' = IF r.ok THEN Put(cachedEntries, r.dir, r.entries) ELSE cachedEntries
    /\ listing' = [dir |-> r.dir,
                   items |-> IF r.ok THEN processDirectoryEntries(r.dir, r.entries) ELSE <<>>]

\* the i-th readdir reads the directory, or getChildren resumes with its result
ReadStep(i) ==
    /\ i \in 1..Len(reads)
    /\ IF reads[i].phase = "readdir"
       THEN /\ reads' = [reads EXCEPT ![i] =
                           Read(reads[i].dir, "done", Dirents(Entries(reads[i].dir)),
                                ReaddirOk(reads[i].dir))]
            /\ UNCHANGED listVars
       ELSE /\ reads' = RemoveAt(reads, i)
            /\ GetChildrenStored(reads[i])
    /\ UNCHANGED <<cacheVars, fs, wsFolders, cfgRespect, expandedItems, expandTimer, sweeps,
                   ruleVars, feRoots, selVars, searchVars, obs>>

\* a file is created on disk; fileWatcher.onDidCreate calls refresh()
FileCreated(filePath) ==
    /\ ~Exists(filePath)
    /\ IsDirectory(Dirname(filePath))
    /\ fs' = Put(fs, filePath, File)
    /\ cachedEntries' = EmptyMap
    /\ UNCHANGED <<cacheVars, wsFolders, cfgRespect, viewVars, ruleVars, feRoots, selVars,
                   searchVars, listing, obs>>

\* the items the tree shows when every directory is expanded: the Roots and,
\* below a shown directory, what getChildren returns for it
RECURSIVE Shown(_)
Shown(p) ==
    \/ p \in Range(feRoots)
    \/ /\ p # <<>>
       /\ Shown(Dirname(p))
       /\ p \in Range(getChildren(Dirname(p)))

\* a call of findMatchesInDirectory whose directory is still to be read;
\* sub: the call was made for a subdirectory, after its emptiness check
FindFrame(dir, sub) == [dir |-> dir, todo |-> <<>>, read |-> FALSE, sub |-> sub]

\* the for loop of findMatchesInDirectory from the moment a readdir has
\* resolved until the next directory is awaited: stack holds the active
\* calls, innermost first; matches the paths found so far, in order
RECURSIVE RunFind(_, _)
RunFind(stack, matches) ==
    IF stack = <<>> THEN [stack |-> stack, matches |-> matches]
    ELSE LET top == stack[1] IN
         IF top.todo = <<>> THEN RunFind(Tail(stack), matches)
         ELSE LET entry == top.todo[1]
                  rest == <<[top EXCEPT !.todo = Tail(top.todo)]>> \o Tail(stack)
                  found == IF IsMatch(Basename(entry.p), searchTerm)
                           THEN Append(matches, entry.p) ELSE matches
              IN  IF shouldIgnore(entry.p) THEN RunFind(rest, matches)
                  ELSE IF entry.d
                       THEN [stack |-> <<FindFrame(entry.p, TRUE)>> \o rest,
                             matches |-> found]
                       ELSE RunFind(rest, found)

\* the awaited emptiness check and readdir of the innermost call resolve:
\* an effectively empty subdirectory is not searched, a directory that
\* cannot be read ends its call in the catch block
ResumeFind(stack, matches) ==
    LET top == stack[1] IN
    IF top.sub /\ isDirectoryEffectivelyEmpty(top.dir) THEN RunFind(Tail(stack), matches)
    ELSE IF ReaddirOk(top.dir)
         THEN RunFind(<<[top EXCEPT !.todo = Dirents(Entries(top.dir)), !.read = TRUE]>>
                          \o Tail(stack), matches)
         ELSE RunFind(Tail(stack), matches)

\* the ancestors added for a match, stopping at the first level
WithParent(currentPath) == {currentPath, Dirname(currentPath)}

\* the path and every directory above it, the filesystem root included
RECURSIVE WithAncestors(_)
WithAncestors(currentPath) ==
    IF currentPath = Dirname(currentPath) THEN {currentPath}
    ELSE {currentPath} \cup WithAncestors(Dirname(currentPath))

\* a rebuildSearchPaths call in flight
\*   stack    the active findMatchesInDirectory calls
\*   matches  allMatches: found so far, then still to be added
\*   roots    the Roots still to search
\*   stat     <<matchPath>>: fs.promises.stat(matchPath) is awaited
Rebuild(stack, matches, roots, stat) ==
    [stack |-> stack, matches |-> matches, roots |-> roots, stat |-> stat]

\* the loop over allMatches up to its next await: [r, inc], r = <<>> when
\* rebuildSearchPaths has returned
AddMatches(matches, inc) ==
    IF matches = <<>> THEN [r |-> <<>>, inc |-> inc]
    ELSE [r |-> <<Rebuild(<<>>, Tail(matches), <<>>, <<matches[1]>>)>>,
          inc |-> inc \cup WithAncestors(matches[1])]

\* one resumption of rebuild r on the inclusion set inc: [r, inc]
StepRebuild(r, inc) ==
    IF r.stack # <<>>
    THEN LET f == ResumeFind(r.stack, r.matches) IN
         IF f.stack # <<>>
         THEN [r |-> <<[r EXCEPT !.stack = f.stack, !.matches = f.matches]>>, inc |-> inc]
         ELSE IF r.roots # <<>>
              THEN [r |-> <<Rebuild(<<FindFrame(r.roots[1], FALSE)>>, f.matches,
                                    Tail(r.roots), <<>>)>>,
                    inc |-> inc]
              ELSE AddMatches(f.matches, inc)
    ELSE LET matchPath == r.stat[1] IN
         AddMatches(r.matches,
                    IF IsDirectory(matchPath) THEN inc \cup {DirMatchKey(matchPath)}
                    ELSE inc)

\* a pending rebuildSearchPaths resumes; when it has returned, setSearchTerm
\* refreshes the tree and sets the timer of expandMatchingDirectories
RebuildStep(i) ==
    /\ i \in 1..Len(rebuilds)
    /\ LET n == StepRebuild(rebuilds[i], includedPaths) IN
       /\ includedPaths' = n.inc
       /\ IF n.r = <<>>
          THEN /\ rebuilds' = RemoveAt(rebuilds, i)
               /\ cachedEntries' = EmptyMap
               /\ expandTimer' = TRUE
          ELSE /\ rebuilds' = [rebuilds EXCEPT ![i] = n.r[1]]
               /\ UNCHANGED <<cachedEntries, expandTimer>>
    /\ UNCHANGED <<cacheVars, fs, wsFolders, cfgRespect, expandedItems, sweeps, reads,
                   ruleVars, feRoots, selVars, searchTerm, listing, obs>>

\* the command promptcode.filterFiles: setSearchTerm(term) up to its first await
SetSearchTerm(term) ==
    /\ searchTerm' = term
    /\ includedPaths' = {}
    /\ IF IsBlank(term) \/ feRoots = <<>>
       THEN rebuilds' = rebuilds /\ cachedEntries' = EmptyMap
       ELSE /\ rebuilds' = Append(rebuilds,
                    Rebuild(<<FindFrame(feRoots[1], FALSE)>>, <<>>, Tail(feRoots), <<>>))
            /\ UNCHANGED cachedEntries
    /\ expandTimer' = IF ~IsBlank(term) /\ feRoots = <<>> THEN TRUE ELSE expandTimer
    /\ UNCHANGED <<cacheVars, fs, wsFolders, cfgRespect, expandedItems, sweeps, reads,
                   ruleVars, feRoots, selVars, listing, obs>>

-----------------------------------------------------------------------------
(* FileExplorerProvider: expandAll and expandMatchingDirectories *)

\* the limit of expandAll on the directories it expands
maxDirectories == 99

\* the batch sizes of expandAll and of expandMatchingDirectories
batchSize == 100
matchBatchSize == 20

\* item.isDirectory of a FileItem made by getChildren
IsDirectoryItem(p) == p \in Range(feRoots) \/ IsDirectory(p)

\* collectDirectories over the items of one getChildren call: the directory
\* items in order, each followed by the directories beneath it (the loop over
\* the items is split in halves)
RECURSIVE collectDirectories(_)
collectDirectories(items) ==
    IF items = <<>> THEN <<>>
    ELSE IF Len(items) = 1
    THEN IF IsDirectoryItem(items[1])
         THEN <<items[1]>> \o collectDirectories(getChildren(items[1]))
         ELSE <<>>
    ELSE LET h == Len(items) \div 2 IN
         collectDirectories(SubSeq(items, 1, h))
             \o collectDirectories(SubSeq(items, h + 1, Len(items)))

\* fullPath.split(path.sep).length
Depth(p) == Len(p) + 1

\* the elements of dirs whose depth is k or more, ordered by depth; elements
\* of equal depth keep their order (Array.prototype.sort is stable)
RECURSIVE ByDepthFrom(_, _)
ByDepthFrom(dirs, k) ==
    IF \A i \in 1..Len(dirs) : Depth(dirs[i]) < k THEN <<>>
    ELSE SelectSeqBy(dirs, {d \in Range(dirs) : Depth(d) = k}) \o ByDepthFrom(dirs, k + 1)

\* getAllDirectories(): the directories the tree lists, shallowest first
getAllDirectories == ByDepthFrom(collectDirectories(feRoots), 0)

\* the readdir results getAllDirectories leaves in cachedEntries
CachedBy(directories) ==
    [d \in DOMAIN cachedEntries
          \cup {e \in Range(directories) : Exists(e) /\ ReaddirOk(e)} |->
        IF d \in DOMAIN cachedEntries THEN cachedEntries[d] ELSE Dirents(Entries(d))]

\* expandAll without its limit
DirectoriesToProcessAll(directories) == directories

\* directoriesToProcess of expandAll
DirectoriesToProcess(directories) ==
    IF Len(directories) > maxDirectories THEN SubSeq(directories, 1, maxDirectories)
    ELSE directories

\* seq.slice(i, i + size) for i = 0, size, 2 * size, ...; the last batch is
\* marked when level is TRUE
RECURSIVE Batches(_, _, _)
Batches(seq, size, level) ==
    IF seq = <<>> THEN <<>>
    ELSE IF Len(seq) <= size THEN <<[dirs |-> seq, last |-> level]>>
    ELSE <<[dirs |-> SubSeq(seq, 1, size), last |-> FALSE]>>
             \o Batches(SubSeq(seq, size + 1, Len(seq)), size, level)

\* dirsByLevel walked by ascending level, each level in batches
RECURSIVE LevelBatches(_, _)
LevelBatches(dirs, k) ==
    IF \A i \in 1..Len(dirs) : Depth(dirs[i]) < k THEN <<>>
    ELSE Batches(SelectSeqBy(dirs, {d \in Range(dirs) : Depth(d) = k}), batchSize, TRUE)
             \o LevelBatches(dirs, k + 1)

\* processDirectory of expandMatchingDirectories: the deepest segment of the
\* path that contains the search term (0: none, or only the empty segment
\* before the first separator)
MatchDepth(dirPath) ==
    LET hits == {i \in 1..Len(dirPath) : IsMatch(dirPath[i], searchTerm)}
    IN  IF hits = {} THEN 0 ELSE CHOOSE i \in hits : \A j \in hits : j <= i

\* directoriesToExpand: the paths up to the deepest matching segment
DirectoriesToExpand(directories) ==
    UNION {{SubSeq(d, 1, i) : i \in 1..MatchDepth(d)} : d \in Range(directories)}

\* directoriesToReveal
DirectoriesToReveal(directories) ==
    SelectSeqBy(directories, Range(directories) \cap DirectoriesToExpand(directories))

\* expandedItems.set(dir.fullPath, true) for the directories of a batch
Expanded(ei, dirs) ==
    [d \in DOMAIN ei \cup Range(dirs) |-> IF d \in Range(dirs) THEN TRUE ELSE ei[d]]

\* an expandAll ("all") or expandMatchingDirectories ("match") call in flight
\*   phase  "collect": getAllDirectories is awaited; "reveal": the reveal
\*          promises of the first batch of todo; "delay": the pause after it
\*   todo   the batches still to process
\*   done   the directories marked as expanded so far
\*   found  directories.length
Sweep(kind, phase, todo, done, found) ==
    [kind |-> kind, phase |-> phase, todo |-> todo, done |-> done, found |-> found]

\* the next batch of sweep w is marked and its reveal promises are awaited;
\* without a batch the call returns: [w, ei], w = <<>> when it has returned
MarkNext(w, ei) ==
    IF w.todo = <<>> THEN [w |-> <<>>, ei |-> ei]
    ELSE [w |-> <<[w EXCEPT !.phase = "reveal", !.done = @ \o w.todo[1].dirs]>>,
          ei |-> Expanded(ei, w.todo[1].dirs)]

\* one resumption of sweep w: [w, ei, refresh]
StepSweep(w, ei) ==
    IF w.phase = "collect"
    THEN LET directories == getAllDirectories
             todo == IF w.kind = "all"
                     THEN LevelBatches(DirectoriesToProcess(directories), 0)
                     ELSE Batches(DirectoriesToReveal(directories), matchBatchSize, FALSE)
         IN  MarkNext(Sweep(w.kind, "collect", todo, <<>>, Len(directories)), ei)
                 @@ [refresh |-> FALSE]
    ELSE IF w.phase = "reveal"
    THEN LET rest == [w EXCEPT !.todo = Tail(w.todo)] IN
         IF w.kind = "all"
         THEN IF w.todo[1].last
              THEN [w |-> <<[rest EXCEPT !.phase = "delay"]>>, ei |-> ei, refresh |-> TRUE]
              ELSE MarkNext(rest, ei) @@ [refresh |-> FALSE]
         ELSE IF rest.todo # <<>>
              THEN [w |-> <<[rest EXCEPT !.phase = "delay"]>>, ei |-> ei, refresh |-> FALSE]
              ELSE [w |-> <<>>, ei |-> ei, refresh |-> FALSE]
    ELSE MarkNext(w, ei) @@ [refresh |-> FALSE]

\* a pending expandAll or expandMatchingDirectories resumes
SweepStep(i) ==
    /\ i \in 1..Len(sweeps)
    /\ LET n == StepSweep(sweeps[i], expandedItems) IN
       /\ expandedItems' = n.ei
       /\ sweeps' = IF n.w = <<>> THEN RemoveAt(sweeps, i)
                    ELSE [sweeps EXCEPT ![i] = n.w[1]]
       /\ cachedEntries' = IF n.refresh THEN EmptyMap
                           ELSE IF sweeps[i].phase = "collect"
                                THEN CachedBy(getAllDirectories)
                                ELSE cachedEntries
    /\ UNCHANGED <<cacheVars, fs, wsFolders, cfgRespect, expandTimer, reads, ruleVars,
                   feRoots, selVars, searchVars, listing, obs>>

\* the command promptcode.expandAll: expandAll() up to its first await (the
\* tree view is set by activate before any command runs)
ExpandAll ==
    /\ feRoots # <<>>
    /\ sweeps' = Append(sweeps, Sweep("all", "collect", <<>>, <<>>, 0))
    /\ UNCHANGED <<cacheVars, fs, wsFolders, cfgRespect, expandedItems, expandTimer, reads,
                   ruleVars, feRoots, selVars, searchVars, listVars, obs>>

\* the timer set by setSearchTerm fires: expandMatchingDirectories() up to
\* its first await
ExpandTimerFires ==
    /\ expandTimer
    /\ expandTimer' = FALSE
    /\ sweeps' = Append(sweeps, Sweep("match", "collect", <<>>, <<>>, 0))
    /\ UNCHANGED <<cacheVars, fs, wsFolders, cfgRespect, expandedItems, reads,
                   ruleVars, feRoots, selVars, searchVars, listVars, obs>>

-----------------------------------------------------------------------------
(* Rule reloads: IgnoreHelper.initialize() and refreshIgnoreHelper() *)

AllPathOrder == <<FsRoot>> \o NodeOrder

\* an initialize() call in flight
\*   roots    the Roots still to process, the first one being processed
\*   phase    "pc": loadPromptcodeIgnore awaits its file; "git": findGitignores
\*            awaits the directory stack[1]
\*   cleanup  the call was made by refreshIgnoreHelper
\*   cur      (history) no rule file, setting or Root changed since the call
Reload(roots, phase, stack, cleanup) ==
    [roots |-> roots, phase |-> phase, stack |-> stack, cleanup |-> cleanup,
     cur |-> TRUE, held |-> <<>>]

\* (history) every call in flight was made before the change now happening
RECURSIVE Outdated(_)
Outdated(rs) ==
    IF rs = <<>> THEN <<>>
    ELSE <<[rs[1] EXCEPT !.cur = FALSE]>> \o Outdated(Tail(rs))

RECURSIVE ChainTasks(_)
ChainTasks(items) ==
    IF items = <<>> THEN <<>>
    ELSE (IF ChainCall(Dirname(items[1])) = <<>> THEN <<>>
          ELSE <<Task("chain", FALSE, <<>>, <<>>, ChainCall(Dirname(items[1])))>>)
         \o ChainTasks(Tail(items))

\* cleanupSelectedFiles() on the matchers pc, g: the map without the checked
\* entries that are now ignored, and the updateParentStates calls it starts
CleanupSelectedFiles(pc, g, resp) ==
    LET itemsToRemove ==
            {itemPath \in DOMAIN checkedItems :
                checkedItems[itemPath] /\ ShouldIgnoreWith(pc, g, resp, itemPath)}
    IN  [ci |-> Without(checkedItems, itemsToRemove),
         started |-> ChainTasks(SelectSeqBy(AllPathOrder, itemsToRemove))]

\* the then-callback of an initialize() call: cleanupSelectedFiles and refresh
\* after refreshIgnoreHelper, refresh alone after the constructor
ReloadDone(r, pc, g) ==
    /\ cachedEntries' = EmptyMap
    /\ IF r.cleanup
       THEN LET c == CleanupSelectedFiles(pc, g, respectGitignore) IN
            /\ checkedItems' = c.ci
            /\ tasks' = tasks \o c.started
       ELSE UNCHANGED <<checkedItems, tasks>>

\* initialize() goes to its next Root, or resolves
NextRoot(i, pc, g) ==
    LET r == reloads[i] IN
    IF Tail(r.roots) = <<>>
    THEN /\ reloads' = RemoveAt(reloads, i)
         /\ obs' = [obs EXCEPT !.fresh = r.cur]
         /\ ReloadDone(r, pc, g)
    ELSE /\ reloads' = [reloads EXCEPT ![i] =
                [r EXCEPT !.roots = Tail(r.roots), !.phase = "pc", !.stack = <<>>,
                          !.held = <<>>]]
         /\ UNCHANGED <<checkedItems, tasks, cachedEntries, obs>>

\* one resumption of the i-th initialize() call
ReloadStep(i) ==
    /\ i \in 1..Len(reloads)
    /\ LET r == reloads[i]
           workspaceRoot == r.roots[1]
       IN  IF r.phase = "pc"
           THEN /\ promptcodeIgnores' =
                       Put(promptcodeIgnores, workspaceRoot,
                           LoadedPromptcodeIgnore(workspaceRoot))
                /\ IF respectGitignore
                   THEN /\ gitignores' = ClearedGitignores(gitignores, workspaceRoot)
                        /\ reloads' = [reloads EXCEPT ![i] =
                               [r EXCEPT !.phase = "git", !.stack = <<workspaceRoot>>]]
                        /\ UNCHANGED <<checkedItems, tasks, cachedEntries, obs>>
                   ELSE /\ UNCHANGED gitignores
                        /\ NextRoot(i, promptcodeIgnores', gitignores)
           ELSE LET dir == r.stack[1]
                    stack == Subdirs(dir) \o Tail(r.stack)
                IN  /\ gitignores' = IF r.held = <<>> THEN LoadedGitignore(gitignores, dir)
                                      ELSE Put(gitignores, dir, r.held[1])
                    /\ UNCHANGED promptcodeIgnores
                    /\ IF stack = <<>>
                       THEN NextRoot(i, promptcodeIgnores, gitignores')
                       ELSE /\ reloads' = [reloads EXCEPT ![i] =
                                   [r EXCEPT !.stack = stack, !.held = <<>>]]
                            /\ UNCHANGED <<checkedItems, tasks, cachedEntries, obs>>
    /\ UNCHANGED <<cacheVars, fs, wsFolders, cfgRespect, viewVars, ihRoots, respectGitignore, feRoots,
                   searchVars, listing>>

\* loadGitignore of the i-th initialize() call: fs.promises.readFile has read
\* the rule file of the directory the call is at; the call has not resumed
RuleFileRead(i) ==
    /\ i \in 1..Len(reloads)
    /\ LET r == reloads[i] IN
       /\ r.phase = "git"
       /\ r.held = <<>>
       /\ ReadFileOk(Join(r.stack[1], nGitignore))
       /\ reloads' = [reloads EXCEPT ![i] =
              [r EXCEPT !.held = <<fs[Join(r.stack[1], nGitignore)].rules>>]]
    /\ UNCHANGED <<cacheVars, fs, wsFolders, cfgRespect, viewVars, ihRoots, respectGitignore,
                   promptcodeIgnores, gitignores, checkedItems, tasks, cachedEntries, obs,
                   feRoots, searchVars, listing>>

\* refreshIgnoreHelper(): initialize() up to its first await, under the
\* setting cfg; without Roots it resolves at once
RefreshIgnoreHelper(cfg) ==
    /\ respectGitignore' = cfg
    /\ UNCHANGED <<ihRoots, promptcodeIgnores, gitignores>>
    /\ IF ihRoots = <<>>
       THEN /\ reloads' = Outdated(reloads)
            /\ obs' = [obs EXCEPT !.fresh = TRUE]
            /\ cachedEntries' = EmptyMap
            /\ LET c == CleanupSelectedFiles(promptcodeIgnores, gitignores, cfg) IN
               /\ checkedItems' = c.ci
               /\ tasks' = tasks \o c.started
       ELSE /\ reloads' = Append(Outdated(reloads), Reload(ihRoots, "pc", <<>>, TRUE))
            /\ obs' = [obs EXCEPT !.fresh = FALSE]
            /\ UNCHANGED <<checkedItems, tasks, cachedEntries>>

\* a rule file is created, changed or deleted on disk (rec = NoFile: deleted); the
\* file watcher of its Root calls refreshIgnoreHelper
EditRuleFile(path, rec) ==
    /\ Basename(path) \in {nGitignore, nPromptcodeIgnore}
    /\ IsDirectory(Dirname(path))
    /\ \E r \in Range(feRoots) : IsUnder(path, r)
    /\ IF Exists(path) THEN fs[path] # rec ELSE rec # NoFile
    /\ fs' = IF rec = NoFile THEN Without(fs, {path}) ELSE Put(fs, path, rec)
    /\ RefreshIgnoreHelper(cfgRespect)
    /\ UNCHANGED <<cacheVars, wsFolders, cfgRespect, viewVars, feRoots, searchVars, listing>>

\* the setting promptcode.respectGitignore changes; onDidChangeConfiguration
\* calls refreshIgnoreHelper
SetRespectGitignore(b) ==
    /\ b # cfgRespect
    /\ cfgRespect' = b
    /\ RefreshIgnoreHelper(b)
    /\ UNCHANGED <<cacheVars, fs, wsFolders, viewVars, feRoots, searchVars, listing>>

\* removeFilesFromSelection(rootPath)
RemoveFilesFromSelection(ci, rootPath) ==
    Without(ci, {path \in DOMAIN ci : PathStartsWith(path, rootPath)})

\* sequence s without the element x
SeqWithout(s, x) == SelectSeqBy(s, Range(s) \ {x})

\* onDidChangeWorkspaceFolders with one folder added: handleWorkspaceFoldersChanged
AddRoot(root) ==
    /\ root \notin Range(wsFolders)
    /\ IsDirectory(root)
    /\ wsFolders' = Append(wsFolders, root)
    /\ feRoots' = Append(feRoots, root)
    /\ cachedEntries' = EmptyMap
    /\ reloads' = Outdated(reloads)
    /\ obs' = [obs EXCEPT !.fresh = FALSE]
    /\ UNCHANGED <<cacheVars, fs, cfgRespect, viewVars, ihRoots, promptcodeIgnores, gitignores,
                   respectGitignore, selVars, searchVars, listing>>

\* onDidChangeWorkspaceFolders with one folder removed
RemoveRoot(root) ==
    /\ root \in Range(wsFolders)
    /\ wsFolders' = SeqWithout(wsFolders, root)
    /\ feRoots' = SeqWithout(feRoots, root)
    /\ checkedItems' = IF root \in Range(feRoots)
                       THEN RemoveFilesFromSelection(checkedItems, root)
                       ELSE checkedItems
    /\ cachedEntries' = EmptyMap
    /\ UNCHANGED <<cacheVars, fs, cfgRespect, viewVars, ruleVars, tasks, searchVars, listing, obs>>

-----------------------------------------------------------------------------
(* tokenCounter.ts: the weight cache *)

NoDoc == [version |-> <<>>, extensionVersion |-> <<>>, entries |-> <<>>]
Undefined == <<>>
NoEntry == [count |-> 0, mtime |-> 0, size |-> 0]

\* no countTokensWithCache call has resolved yet
\*   cleared: clearTokenCache was called and no call has stored an entry since
NoAnswer == [path |-> <<>>, count |-> 0, how |-> "none", old |-> <<>>, cleared |-> FALSE]

\* the record of a resolved call: what it returned, how, and the cache entry
\* the path had when it resolved
Answer(filePath, count, how) ==
    [path |-> filePath, count |-> count, how |-> how,
     old |-> IF filePath \in DOMAIN tokenCache THEN <<tokenCache[filePath]>> ELSE <<>>,
     cleared |-> IF how = "miss" THEN FALSE ELSE answers.cleared]

\* fs.promises.stat(filePath) resolves
StatOk(filePath) == Exists(filePath)

\* fs.Stats of a file: mtimeMs and size (the byte length of the content)
Stats(filePath) ==
    IF filePath \in DOMAIN files
    THEN [mtime |-> files[filePath].mtime, size |-> Len(files[filePath].content)]
    ELSE [mtime |-> 0, size |-> 0]

\* countTokens(content) of gpt-tokenizer, as the number of words: a token
\* starts at each character that is no blank and follows a blank or the start
countTokens(content) ==
    Cardinality({i \in 1..Len(content) :
                    content[i] # " " /\ (i = 1 \/ content[i - 1] = " ")})

\* countTokensInFile without its access check and catch block: the content is
\* counted whether or not the file can be read
countTokensInFileUnguarded(filePath) ==
    IF filePath \in DOMAIN files THEN countTokens(files[filePath].content) ELSE 0

\* countTokensInFile(filePath): 0 when access or readFile rejects
countTokensInFile(filePath) ==
    IF ReadFileOk(filePath) /\ filePath \in DOMAIN files
    THEN countTokens(files[filePath].content)
    ELSE 0

\* isCacheValid comparing the size only
isCacheValidSizeOnly(filePath, stats) ==
    IF filePath \notin DOMAIN tokenCache THEN FALSE
    ELSE tokenCache[filePath].size = stats.size

\* isCacheValid(filePath, stats)
isCacheValid(filePath, stats) ==
    IF filePath \notin DOMAIN tokenCache THEN FALSE
    ELSE tokenCache[filePath].mtime = stats.mtime /\ tokenCache[filePath].size = stats.size

\* scheduleCacheSave without its clearTimeout: the earlier timeout stays pending
scheduleCacheSaveNoClear(timer, pending) == pending + 1

\* scheduleCacheSave(): the number of pending timeouts after clearTimeout of
\* the held handle (timer: saveCacheTimer is set) and the new setTimeout
scheduleCacheSave(timer, pending) ==
    (IF timer /\ pending > 0 THEN pending - 1 ELSE pending) + 1

\* a getSelectedFiles call awaiting Promise.all: the selectedFilePaths it
\* mapped and the token counts already resolved
Get(paths, got) == [paths |-> paths, got |-> got]

\* the message { command: 'updateSelectedFiles', selectedFiles, totalTokens }
Message(selectedFiles, totalTokens) ==
    [selectedFiles |-> selectedFiles, totalTokens |-> totalTokens]
NoMessage == Message(<<>>, 0)

\* a countTokensWithCache promise resolves with count: the first call that
\* awaits the path receives it
RECURSIVE Deliver(_, _, _)
Deliver(gs, filePath, count) ==
    IF gs = <<>> THEN <<>>
    ELSE IF filePath \in Range(gs[1].paths) /\ filePath \notin DOMAIN gs[1].got
         THEN <<Get(gs[1].paths, Put(gs[1].got, filePath, count))>> \o Tail(gs)
         ELSE <<gs[1]>> \o Deliver(Tail(gs), filePath, count)

\* a countTokensWithCache(filePath) call in flight
\*   phase  "stat": fs.promises.stat is awaited; "read": countTokensInFile is
\*          awaited after a miss; "fallback": it is awaited in the catch block
Query(filePath, phase, stats) == [path |-> filePath, phase |-> phase, stats |-> stats]

\* countTokensWithCache(filePath) is called (getSelectedFiles, the tree's items)
CountTokensWithCache(filePath) ==
    /\ queries' = Append(queries, Query(filePath, "stat", Stats(<<>>)))
    /\ UNCHANGED <<fs, treeVars, aggVars, files, clock, tokenCache, diskCache, extensionVersion,
                   saveCacheTimer, timeouts, cacheOps, answers>>

\* the i-th countTokensWithCache call resumes
QueryStep(i) ==
    /\ i \in 1..Len(queries)
    /\ LET q == queries[i] IN
       IF q.phase = "stat"
       THEN IF StatOk(q.path)
            THEN IF isCacheValid(q.path, Stats(q.path))
                 THEN /\ answers' = Answer(q.path, tokenCache[q.path].count, "hit")
                      /\ queries' = RemoveAt(queries, i)
                      /\ UNCHANGED <<tokenCache, saveCacheTimer, timeouts>>
                 ELSE /\ queries' = [queries EXCEPT ![i] =
                                        Query(q.path, "read", Stats(q.path))]
                      /\ UNCHANGED <<tokenCache, saveCacheTimer, timeouts, answers>>
            ELSE /\ queries' = [queries EXCEPT ![i] = Query(q.path, "fallback", q.stats)]
                 /\ UNCHANGED <<tokenCache, saveCacheTimer, timeouts, answers>>
       ELSE IF q.phase = "read"
       THEN LET count == countTokensInFile(q.path) IN
            /\ tokenCache' = Put(tokenCache, q.path,
                                 [count |-> count, mtime |-> q.stats.mtime,
                                  size |-> q.stats.size])
            /\ saveCacheTimer' = TRUE
            /\ timeouts' = scheduleCacheSave(saveCacheTimer, timeouts)
            /\ answers' = Answer(q.path, count, "miss")
            /\ queries' = RemoveAt(queries, i)
       ELSE /\ answers' = Answer(q.path, countTokensInFile(q.path), "fallback")
            /\ queries' = RemoveAt(queries, i)
            /\ UNCHANGED <<tokenCache, saveCacheTimer, timeouts>>
    /\ gets' = IF Len(queries') < Len(queries)
               THEN Deliver(gets, queries[i].path, answers'.count) ELSE gets
    /\ UNCHANGED <<fs, treeVars, files, clock, diskCache, extensionVersion, cacheOps, panel>>

\* the entries of a map as Object.entries / JSON.stringify write them: a
\* sequence of <<key, value>> pairs
RECURSIVE PairsOf(_, _)
PairsOf(f, order) ==
    IF order = <<>> THEN <<>>
    ELSE (IF order[1] \in DOMAIN f THEN <<<<order[1], f[order[1]]>>>> ELSE <<>>)
             \o PairsOf(f, Tail(order))

\* saveCacheToDisk writing a document without the entries of the memory cache
StringifyNoEntries(tc, ev) ==
    [version |-> <<"1", ".", "0">>,
     extensionVersion |-> IF ev = Undefined THEN <<"0", ".", "0", ".", "0">> ELSE ev,
     entries |-> <<>>]

\* JSON.stringify(cacheData) in saveCacheToDisk: the document written for the
\* memory cache tc under the running version ev
Stringify(tc, ev) ==
    [version |-> <<"1", ".", "0">>,
     extensionVersion |-> IF ev = Undefined THEN <<"0", ".", "0", ".", "0">> ELSE ev,
     entries |-> PairsOf(tc, AllPathOrder)]

\* the forEach of loadCacheFromDisk over Object.entries(cacheData.entries):
\* only the entries of paths that still exist are imported
RECURSIVE ImportEntries(_, _)
ImportEntries(pairs, tc) ==
    IF pairs = <<>> THEN tc
    ELSE ImportEntries(Tail(pairs),
                       IF Exists(pairs[1][1]) THEN Put(tc, pairs[1][1], pairs[1][2])
                       ELSE tc)

\* loadCacheFromDisk without the comparison of extensionVersion
LoadedCacheAnyVersion(doc, tc, ev) ==
    IF doc.version = <<"1", ".", "0">> THEN ImportEntries(doc.entries, EmptyMap) ELSE tc

\* loadCacheFromDisk after JSON.parse: the memory cache it leaves
LoadedCache(doc, tc, ev) ==
    IF doc.version = <<"1", ".", "0">>
    THEN IF doc.extensionVersion = <<>> \/ ev = Undefined \/ doc.extensionVersion # ev
         THEN EmptyMap
         ELSE ImportEntries(doc.entries, EmptyMap)
    ELSE tc

\* an operation on the document in flight
\*   kind "load": phase "access" then "read"; kind "save": phase "mkdir" then
\*   "write" (data: the text to write); kind "unlink"
CacheOp(kind, phase, data) == [kind |-> kind, phase |-> phase, data |-> data]

\* the i-th operation on the document resumes
CacheOpStep(i) ==
    /\ i \in 1..Len(cacheOps)
    /\ LET op == cacheOps[i] IN
       CASE op.kind = "load" /\ op.phase = "access" ->
              /\ cacheOps' = IF diskCache = NoDoc THEN RemoveAt(cacheOps, i)
                             ELSE [cacheOps EXCEPT ![i] = CacheOp("load", "read", NoDoc)]
              /\ UNCHANGED <<tokenCache, diskCache>>
         [] op.kind = "load" /\ op.phase = "read" ->
              /\ cacheOps' = RemoveAt(cacheOps, i)
              /\ tokenCache' = IF diskCache = NoDoc THEN tokenCache
                               ELSE LoadedCache(diskCache, tokenCache, extensionVersion)
              /\ UNCHANGED diskCache
         [] op.kind = "save" /\ op.phase = "mkdir" ->
              /\ cacheOps' = [cacheOps EXCEPT ![i] =
                                 CacheOp("save", "write", Stringify(tokenCache, extensionVersion))]
              /\ UNCHANGED <<tokenCache, diskCache>>
         [] op.kind = "save" /\ op.phase = "write" ->
              /\ cacheOps' = RemoveAt(cacheOps, i)
              /\ diskCache' = op.data
              /\ UNCHANGED tokenCache
         [] OTHER ->
              /\ cacheOps' = RemoveAt(cacheOps, i)
              /\ diskCache' = NoDoc
              /\ UNCHANGED tokenCache
    /\ UNCHANGED <<fs, treeVars, aggVars, files, clock, extensionVersion, saveCacheTimer, timeouts, queries,
                   answers>>

\* the timer set by scheduleCacheSave fires: saveCacheToDisk() starts
SaveTimerFires ==
    /\ timeouts > 0
    /\ timeouts' = timeouts - 1
    /\ saveCacheTimer' = FALSE
    /\ cacheOps' = Append(cacheOps, CacheOp("save", "mkdir", NoDoc))
    /\ UNCHANGED <<fs, treeVars, aggVars, files, clock, tokenCache, diskCache, extensionVersion,
                   queries, answers>>

\* clearTokenCache(): the memory cache is cleared, fs.unlink is started
ClearTokenCache ==
    /\ tokenCache' = EmptyMap
    /\ cacheOps' = Append(cacheOps, CacheOp("unlink", "unlink", NoDoc))
    /\ answers' = [answers EXCEPT !.cleared = TRUE]
    /\ UNCHANGED <<fs, treeVars, aggVars, files, clock, diskCache, extensionVersion, saveCacheTimer, timeouts,
                   queries>>

\* the extension host restarts under version ev: the module state is fresh,
\* initializeTokenCounter starts loadCacheFromDisk
InitializeTokenCounter(ev) ==
    /\ tokenCache' = EmptyMap
    /\ extensionVersion' = ev
    /\ saveCacheTimer' = FALSE
    /\ timeouts' = 0
    /\ cacheOps' = <<CacheOp("load", "access", NoDoc)>>
    /\ queries' = <<>>
    /\ answers' = [NoAnswer EXCEPT !.cleared = answers.cleared]
    /\ gets' = <<>>
    /\ panel' = NoMessage
    /\ UNCHANGED <<fs, treeVars, files, clock, diskCache>>

\* a file is written: new content, new mtime
WriteFile(filePath, content) ==
    /\ clock' = clock + 1
    /\ files' = Put(files, filePath, [content |-> content, mtime |-> clock + 1])
    /\ fs' = IF Exists(filePath) THEN fs ELSE Put(fs, filePath, File)
    /\ UNCHANGED <<treeVars, aggVars, tokenCache, diskCache, extensionVersion, saveCacheTimer, timeouts,
                   cacheOps, queries, answers>>

\* a file is deleted
DeleteFile(filePath) ==
    /\ IsFile(filePath)
    /\ fs' = Without(fs, {filePath})
    /\ files' = Without(files, {filePath})
    /\ UNCHANGED <<treeVars, aggVars, clock, tokenCache, diskCache, extensionVersion, saveCacheTimer, timeouts,
                   cacheOps, queries, answers>>

\* the read permission of a file changes
SetReadable(filePath, b) ==
    /\ IsFile(filePath)
    /\ fs[filePath].ok # b
    /\ fs' = [fs EXCEPT ![filePath].ok = b]
    /\ UNCHANGED <<treeVars, aggVars, files, clock, tokenCache, diskCache, extensionVersion,
                   saveCacheTimer, timeouts, cacheOps, queries, answers>>

-----------------------------------------------------------------------------
(* The selected files and their weights: the command                        *)
(* promptcode.getSelectedFiles and the webview's grouping by directory      *)

\* path.relative(from, to) on two absolute paths, as a sequence of names
nDotDot == <<".", ".">>
RECURSIVE CommonLen(_, _)
CommonLen(a, b) ==
    IF a = <<>> \/ b = <<>> \/ a[1] # b[1] THEN 0 ELSE 1 + CommonLen(Tail(a), Tail(b))
PathRelative(from, to) ==
    LET k == CommonLen(from, to)
    IN  [i \in 1..(Len(from) - k) |-> nDotDot] \o SubSeq(to, k + 1, Len(to))

\* the loop over vscode.workspace.workspaceFolders in getSelectedFiles: the
\* first folder whose fsPath is a string prefix of absolutePath (<<>> if none)
RECURSIVE FirstFolderOf(_, _)
FirstFolderOf(folders, absolutePath) ==
    IF folders = <<>> THEN <<>>
    ELSE IF PathStartsWith(absolutePath, folders[1]) THEN <<folders[1]>>
    ELSE FirstFolderOf(Tail(folders), absolutePath)

\* one element of selectedFilesWithTokens
SelectedFile(absolutePath, tokenCount) ==
    LET found == FirstFolderOf(wsFolders, absolutePath)
    IN  [path |-> IF found = <<>> THEN absolutePath
                  ELSE PathRelative(found[1], absolutePath),
         absolutePath |-> absolutePath,
         workspaceFolderName |-> IF found = <<>> THEN <<>> ELSE Basename(found[1]),
         workspaceFolderRootPath |-> found,
         tokenCount |-> tokenCount]

\* Array.prototype.reduce((sum, file) => sum + file.tokenCount, 0)
RECURSIVE SumTokens(_)
SumTokens(selectedFiles) ==
    IF selectedFiles = <<>> THEN 0
    ELSE selectedFiles[1].tokenCount + SumTokens(Tail(selectedFiles))

\* the filters of getSelectedFiles with the search overlay as a third filter
IsSelectedFileInSearch(filePath) ==
    /\ filePath \in DOMAIN checkedItems /\ checkedItems[filePath]
    /\ IsFile(filePath)
    /\ ~shouldIgnore(filePath)
    /\ shouldIncludeInSearch(filePath)

\* the two filters of getSelectedFiles over the checked entries
IsSelectedFile(filePath) ==
    /\ filePath \in DOMAIN checkedItems /\ checkedItems[filePath]
    /\ IsFile(filePath)
    /\ ~shouldIgnore(filePath)

\* the command promptcode.getSelectedFiles up to its await: the checked
\* entries that are files and not ignored are kept (a checked, ignored file is
\* unchecked), countTokensWithCache is called for each of them
GetSelectedFiles ==
    IF wsFolders = <<>>
    THEN /\ panel' = NoMessage
         /\ UNCHANGED <<fs, treeVars, files, clock, tokenCache, diskCache, extensionVersion,
                        saveCacheTimer, timeouts, cacheOps, queries, answers, gets>>
    ELSE LET selectedFilePaths == SelectSeqBy(AllPathOrder, {q \in DOMAIN checkedItems : IsSelectedFile(q)})
         IN  /\ checkedItems' =
                   [q \in DOMAIN checkedItems |->
                       IF checkedItems[q] /\ IsFile(q) /\ shouldIgnore(q) THEN FALSE
                       ELSE checkedItems[q]]
             /\ queries' = queries \o [i \in 1..Len(selectedFilePaths) |->
                                          Query(selectedFilePaths[i], "stat", Stats(<<>>))]
             /\ gets' = Append(gets, Get(selectedFilePaths, EmptyMap))
             /\ UNCHANGED <<fs, wsFolders, cfgRespect, viewVars, ruleVars, feRoots, tasks, searchVars,
                            listVars, obs, files, clock, tokenCache, diskCache,
                            extensionVersion, saveCacheTimer, timeouts, cacheOps, answers, panel>>

\* Promise.all has resolved for the i-th call: totalTokens is summed and the
\* message is posted
PostSelectedFiles(i) ==
    /\ i \in 1..Len(gets)
    /\ Range(gets[i].paths) \subseteq DOMAIN gets[i].got
    /\ LET selectedFilesWithTokens ==
               [k \in 1..Len(gets[i].paths) |->
                   SelectedFile(gets[i].paths[k], gets[i].got[gets[i].paths[k]])]
       IN  panel' = Message(selectedFilesWithTokens, SumTokens(selectedFilesWithTokens))
    /\ gets' = RemoveAt(gets, i)
    /\ UNCHANGED <<fs, treeVars, files, clock, tokenCache, diskCache, extensionVersion,
                   saveCacheTimer, timeouts, cacheOps, queries, answers>>

\* onUpdateSelectedFiles, folder view: the directory key of a file is its
\* path without the last part, or '.'
nDot == <<".">>
DirKey(file) ==
    IF Len(file.path) > 1 THEN SubSeq(file.path, 1, Len(file.path) - 1) ELSE <<nDot>>

\* message.selectedFiles.reduce(...) into filesByDirectory: the groups in the
\* order of their first file, acc being the groups so far
RECURSIVE FilesByDirectory(_, _)
FilesByDirectory(selectedFiles, acc) ==
    IF selectedFiles = <<>> THEN acc
    ELSE LET file == selectedFiles[1]
             dirKey == DirKey(file)
             at == {k \in 1..Len(acc) : acc[k].dirKey = dirKey}
         IN  FilesByDirectory(Tail(selectedFiles),
                 IF at = {}
                 THEN Append(acc, [dirKey |-> dirKey, dirPath |-> dirKey,
                                   workspaceFolderName |-> file.workspaceFolderName,
                                   files |-> <<file>>])
                 ELSE [k \in 1..Len(acc) |->
                          IF k \in at THEN [acc[k] EXCEPT !.files = Append(@, file)]
                          ELSE acc[k]])

\* Array.prototype.sort((a, b) => b.totalTokens - a.totalTokens): stable, by
\* descending totalTokens
RECURSIVE InsertByTokens(_, _)
InsertByTokens(sorted, dir) ==
    IF sorted = <<>> THEN <<dir>>
    ELSE IF sorted[1].totalTokens >= dir.totalTokens
         THEN <<sorted[1]>> \o InsertByTokens(Tail(sorted), dir)
         ELSE <<dir>> \o sorted
RECURSIVE SortByTokens(_, _)
SortByTokens(dirs, sorted) ==
    IF dirs = <<>> THEN sorted
    ELSE SortByTokens(Tail(dirs), InsertByTokens(sorted, dirs[1]))

\* sortedDirectories of onUpdateSelectedFiles for a message
SortedDirectories(message) ==
    LET groups == FilesByDirectory(message.selectedFiles, <<>>)
    IN  SortByTokens([k \in 1..Len(groups) |->
                         [dirPath |-> groups[k].dirPath,
                          workspaceFolderName |-> groups[k].workspaceFolderName,
                          files |-> groups[k].files,
                          totalTokens |-> SumTokens(groups[k].files)]],
                     <<>>)

-----------------------------------------------------------------------------
(* The rule set alone: rule files are edited, the rule set is reloaded, a   *)
(* Root is added; one reload at a time                                      *)

rcX == <<Pat("name", nXtxt)>>
rcTxtNotX == <<Pat("ext", <<".", "t", "x", "t">>), Pat("neg", nXtxt)>>
rcADir == <<Pat("dir", nA)>>

Unreadable(rec) == [rec EXCEPT !.ok = FALSE]

FsIgn ==
    (FsRoot :> Dir) @@ (pP :> Dir) @@ (pA :> Dir) @@ (pAX :> File)
    @@ (pAYbin :> File) @@ (pP2 :> Dir) @@ (pP2Ybin :> File)

NoOp == [kind |-> "none", item |-> <<>>, checked |-> FALSE]

\* the token counter before initializeTokenCounter, with no file content
CacheAtRest ==
    /\ files = EmptyMap
    /\ clock = 0
    /\ tokenCache = EmptyMap
    /\ diskCache = NoDoc
    /\ extensionVersion = Undefined
    /\ saveCacheTimer = FALSE
    /\ timeouts = 0
    /\ cacheOps = <<>>
    /\ queries = <<>>
    /\ answers = NoAnswer

\* the state after the constructors of FileExplorerProvider and IgnoreHelper:
\* the first initialize() call is in flight
InitTree(f, roots) ==
    /\ fs = f
    /\ wsFolders = roots
    /\ cfgRespect = TRUE
    /\ ihRoots = roots
    /\ promptcodeIgnores = EmptyMap
    /\ gitignores = EmptyMap
    /\ respectGitignore = TRUE
    /\ reloads = IF roots = <<>> THEN <<>> ELSE <<Reload(roots, "pc", <<>>, FALSE)>>
    /\ feRoots = roots
    /\ checkedItems = EmptyMap
    /\ tasks = <<>>
    /\ searchTerm = <<>>
    /\ includedPaths = {}
    /\ rebuilds = <<>>
    /\ cachedEntries = EmptyMap
    /\ listing = <<>>
    /\ obs = [fresh |-> roots = <<>>, op |-> NoOp]
    /\ gets = <<>>
    /\ panel = NoMessage
    /\ expandedItems = EmptyMap
    /\ expandTimer = FALSE
    /\ sweeps = <<>>
    /\ reads = <<>>

\* the same with the token counter at rest
InitWith(f, roots) == InitTree(f, roots) /\ CacheAtRest

Idle == reloads = <<>> /\ tasks = <<>> /\ rebuilds = <<>>

-----------------------------------------------------------------------------
(* Selection operations *)

\* one resumption of the i-th selection operation; when processCheckboxChange
\* or toggleAll has resolved, the tree is refreshed
TaskStep(i) ==
    /\ i \in 1..Len(tasks)
    /\ LET r == StepTask(tasks[i], checkedItems) IN
       /\ checkedItems' = r.ci
       /\ IF Finished(r.t)
          THEN /\ tasks' = RemoveAt(tasks, i)
               /\ cachedEntries' = IF r.t.kind = "chain" THEN cachedEntries ELSE EmptyMap
          ELSE /\ tasks' = [tasks EXCEPT ![i] = r.t]
               /\ UNCHANGED cachedEntries
    /\ UNCHANGED <<cacheVars, fs, wsFolders, cfgRespect, viewVars, ruleVars, feRoots, searchVars,
                   listing, obs>>

\* onDidChangeCheckboxState for an item the tree shows: handleCheckboxToggle
Toggle(fullPath, isChecked) ==
    /\ Shown(fullPath)
    /\ LET r == StartToggle(fullPath, fullPath \in Range(feRoots) \/ IsDirectory(fullPath),
                            isChecked)
       IN  /\ checkedItems' = r.ci
           /\ IF Finished(r.t)
              THEN tasks' = tasks /\ cachedEntries' = EmptyMap
              ELSE tasks' = Append(tasks, r.t) /\ UNCHANGED cachedEntries
    /\ obs' = [obs EXCEPT !.op = [kind |-> "toggle", item |-> fullPath,
                                 checked |-> isChecked]]
    /\ UNCHANGED <<cacheVars, fs, wsFolders, cfgRespect, viewVars, ruleVars, feRoots, searchVars, listing>>

\* the commands promptcode.selectAll / promptcode.deselectAll: toggleAll(checked)
ToggleAll(isChecked) ==
    /\ feRoots # <<>>
    /\ LET r == StartToggleAll(isChecked) IN
       /\ checkedItems' = r.ci
       /\ tasks' = Append(tasks, r.t)
    /\ obs' = [obs EXCEPT !.op = [kind |-> "all", item |-> <<>>, checked |-> isChecked]]
    /\ UNCHANGED <<cacheVars, fs, wsFolders, cfgRespect, viewVars, ruleVars, feRoots, searchVars, listVars>>


InitIgn == InitWith(FsIgn, <<pP>>)

IgnRuleFiles ==
    {<<nP, nPromptcodeIgnore>>, <<nP, nGitignore>>, <<nP, nA, nGitignore>>}

IgnContents ==
    {NoFile, RuleFile(rcX), RuleFile(rcTxtNotX), Unreadable(RuleFile(rcX))}

NextIgn ==
    \/ \E i \in 1..Len(reloads) : ReloadStep(i)
    \/ Idle /\ \E path \in IgnRuleFiles, rec \in IgnContents : EditRuleFile(path, rec)
    \/ Idle /\ \E b \in BOOLEAN : SetRespectGitignore(b)
    \/ Idle /\ AddRoot(pP2)

SpecIgn == InitIgn /\ [][NextIgn]_vars

\* the active Roots' paths other than the Roots themselves
IgnPaths == {pA, pAX, pAYbin, pP2Ybin}

RootOf(P) == GetWorkspaceFolder(P)
RelTo(P, D) == SubSeq(P, Len(D) + 1, Len(P))

\* the directories from P's parent up to P's Root
DirsUpToRoot(P) == {D \in {SubSeq(P, 1, k) : k \in 0..(Len(P) - 1)} : IsUnder(D, RootOf(P))}

\* P is matched by the root-level pattern set of its Root
RootLevelMatch(P) ==
    /\ RootOf(P) \in DOMAIN promptcodeIgnores
    /\ Ignores(promptcodeIgnores[RootOf(P)], RelTo(P, RootOf(P)))

\* the verdict of the nearest directory-scoped matcher alone
NearestVerdict(P) ==
    LET having == {D \in DirsUpToRoot(P) : D \in DOMAIN gitignores} IN
    IF having = {} THEN FALSE
    ELSE LET D == CHOOSE D \in having : \A D2 \in having : Len(D2) <= Len(D)
         IN  Ignores(gitignores[D], RelTo(P, D))

\* C4 (as claimed): for a path P under Root R that the root-level pattern set
\* does not match, shouldIgnore(P) is the verdict of the rule file of the
\* nearest directory between P's parent and R that has one, and FALSE when no
\* such directory has one; rule files further up are not consulted.
C4_NearestRuleFileOnly ==
    respectGitignore =>
        \A P \in IgnPaths :
            (HasWorkspaceFolder(P) /\ ~RootLevelMatch(P))
                => (shouldIgnore(P) = NearestVerdict(P))

\* the latest reload has completed and nothing changed since it started
Reloaded == obs.fresh /\ reloads = <<>>

\* the root-level pattern set the claim gives Root R: the override file's
\* content when the file is there, the default deny-list otherwise
ClaimedRootSet(R) ==
    IF ReadFileOk(Join(R, nPromptcodeIgnore))
    THEN fs[Join(R, nPromptcodeIgnore)].rules
    ELSE DEFAULT_IGNORE_PATTERNS

\* shouldIgnore(P) does not depend on the root-level set of another Root
OtherRootsNotConsulted(P) ==
    \A R2 \in Range(wsFolders) \ {RootOf(P)} :
        \A rules \in {<<>>, rcX, DEFAULT_IGNORE_PATTERNS, <<Pat("name", Basename(P))>>} :
            ShouldIgnoreWith(Put(promptcodeIgnores, R2, rules), gitignores,
                             respectGitignore, P) = shouldIgnore(P)

\* C5 (as claimed): once a reload has completed, every Root's root-level
\* pattern set is its override file's content if the file exists and the
\* default deny-list otherwise; a path that set matches is ignored whatever
\* the directory-scoped rule files say; no other Root's set is consulted.
C5_RootLevelSetPerRoot ==
    Reloaded =>
        /\ \A R \in Range(wsFolders) :
              /\ R \in DOMAIN promptcodeIgnores
              /\ promptcodeIgnores[R] = ClaimedRootSet(R)
        /\ \A P \in IgnPaths :
              HasWorkspaceFolder(P) =>
                  /\ Ignores(ClaimedRootSet(RootOf(P)), RelTo(P, RootOf(P)))
                        => shouldIgnore(P)
                  /\ OtherRootsNotConsulted(P)

-----------------------------------------------------------------------------
(* The selection store with rule reloads and Root changes; one operation at *)
(* a time: an operation starts when the earlier ones have completed         *)

FsSel ==
    (FsRoot :> Dir) @@ (pP :> Dir) @@ (pA :> Dir) @@ (pAX :> File)
    @@ (pAYbin :> File) @@ (pB :> Dir) @@ (pBY :> File) @@ (pE :> Dir)

InitSel == InitWith(FsSel, <<pP>>)

SelPaths == DOMAIN FsSel

SelRuleFiles == {<<nP, nPromptcodeIgnore>>}
SelContents == {NoFile, RuleFile(rcADir), RuleFile(<<Pat("name", nB)>>)}

NextSel ==
    \/ \E i \in 1..Len(reloads) : ReloadStep(i)
    \/ \E i \in 1..Len(tasks) : TaskStep(i)
    \/ Idle /\ \E item \in SelPaths, b \in BOOLEAN : Toggle(item, b)
    \/ Idle /\ \E b \in BOOLEAN : ToggleAll(b)
    \/ Idle /\ \E path \in SelRuleFiles, rec \in SelContents : EditRuleFile(path, rec)
    \/ Idle /\ RemoveRoot(pP)
    \/ Idle /\ AddRoot(pP)

SpecSel == InitSel /\ [][NextSel]_vars

-----------------------------------------------------------------------------
(* The selection store alone: rules and Roots fixed, one operation at a time *)

NextTog ==
    \/ \E i \in 1..Len(reloads) : ReloadStep(i)
    \/ \E i \in 1..Len(tasks) : TaskStep(i)
    \/ Idle /\ \E item \in SelPaths, b \in BOOLEAN : Toggle(item, b)
    \/ Idle /\ \E b \in BOOLEAN : ToggleAll(b)

SpecTog == InitSel /\ [][NextTog]_vars

\* the directory holds a non-ignored file somewhere beneath it
RECURSIVE HasVisibleFile(_)
HasVisibleFile(d) ==
    \E e \in Range(Entries(d)) :
        /\ ~shouldIgnore(e)
        /\ IF IsDirectory(e) THEN HasVisibleFile(e) ELSE TRUE

\* an entry the tree can display: not ignored and, for a directory, not
\* effectively empty
Visible(e) == ~shouldIgnore(e) /\ (IsDirectory(e) => HasVisibleFile(e))

\* the entries beneath d that the tree can display by expanding from d
RECURSIVE VisibleDescendants(_)
VisibleDescendants(d) ==
    LET kids == {e \in Range(Entries(d)) : Visible(e)} IN
    kids \cup UNION {VisibleDescendants(k) : k \in {e \in kids : IsDirectory(e)}}

\* the directories of the tree: the Roots and the directories displayed
\* beneath them
TreeDirs ==
    Range(feRoots)
    \cup UNION {{q \in VisibleDescendants(r) : IsDirectory(q)} : r \in Range(feRoots)}

\* C1: once the selection operations have completed (one at a time, rules and
\* Roots fixed), a directory of the tree is checked if and only if at least
\* one of its non-ignored, visible descendants is checked.
C1_DirCheckedIffVisibleDescendantChecked ==
    (Idle /\ obs.op.kind # "none") =>
        \A d \in TreeDirs :
            IsChecked(checkedItems, d)
                <=> \E q \in VisibleDescendants(d) : IsChecked(checkedItems, q)

-----------------------------------------------------------------------------
(* C3: the cascade and the ignore rules *)

\* neither the path nor a directory above it is ignored
NoIgnoredPrefix(q) == \A k \in 1..Len(q) : ~shouldIgnore(SubSeq(q, 1, k))

\* the existing paths strictly beneath d
Beneath(d) == {q \in DOMAIN fs : IsUnder(q, d) /\ q # d}

\* the selection operation in flight resolves in this step
OperationCompletes ==
    /\ tasks # <<>>
    /\ tasks[1].kind \in {"toggle", "all"}
    /\ tasks' = <<>>

\* the entries the completed operation had to set
CascadeTargets(op) ==
    IF op.kind = "all"
    THEN Range(feRoots) \cup UNION {Beneath(r) : r \in Range(feRoots)}
    ELSE IF IsDirectory(op.item) THEN Beneath(op.item) ELSE {}

\* C3: toggling a directory to a state (and selectAll / deselectAll) sets that
\* state on every non-ignored descendant, and no step of a selection operation
\* writes an entry for an ignored path or for a path beneath an ignored
\* directory; so an ignored sibling of a checked file never enters the map.
C3_CascadeSkipsIgnored ==
    [][ /\ \A q \in DOMAIN checkedItems' :
              (q \notin DOMAIN checkedItems \/ checkedItems'[q] # checkedItems[q])
                  => NoIgnoredPrefix(q)'
        /\ OperationCompletes =>
              \A q \in CascadeTargets(obs.op) :
                  NoIgnoredPrefix(q) =>
                      /\ q \in DOMAIN checkedItems'
                      /\ checkedItems'[q] = obs.op.checked ]_vars

\* Scenario A: a/ was checked with y.bin ignored; x.txt is checked and y.bin
\* has no entry
C3_Witness ==
    /\ Idle
    /\ obs.op = [kind |-> "toggle", item |-> pA, checked |-> TRUE]
    /\ shouldIgnore(pAYbin)
    /\ IsChecked(checkedItems, pAX)
    /\ pAYbin \notin DOMAIN checkedItems

-----------------------------------------------------------------------------
(* The selection store with operations in flight together: the tree view    *)
(* delivers a checkbox event whenever the user clicks, and                   *)
(* handleCheckboxToggle does not wait for the operations before it           *)

NextConc ==
    \/ \E i \in 1..Len(reloads) : ReloadStep(i)
    \/ \E i \in 1..Len(tasks) : TaskStep(i)
    \/ /\ reloads = <<>>
       /\ Len(tasks) < MaxTasks
       /\ \E item \in SelPaths, b \in BOOLEAN : Toggle(item, b)
    \/ /\ reloads = <<>>
       /\ Len(tasks) < MaxTasks
       /\ \E b \in BOOLEAN : ToggleAll(b)

SpecConc == InitSel /\ [][NextConc]_vars

\* the earliest operation in flight is a toggle and this step is not its own
EarlierToggleStillRuns ==
    /\ tasks # <<>>
    /\ tasks[1].kind = "toggle"
    /\ tasks' # <<>>
    /\ tasks'[1] = tasks[1]

\* every directory of a Root agrees with the states of its non-ignored children
AncestorsConsistent ==
    \A d \in {q \in DOMAIN fs : IsDirectory(q) /\ \E r \in Range(feRoots) : IsUnder(q, r)} :
        LET childStates == GetChildrenStates(checkedItems, d) IN
        childStates # {} => (IsChecked(checkedItems, d) <=> TRUE \in childStates)

\* C2: toggles are serialized: while an earlier toggle has not finished its
\* ancestor re-derivation no later operation writes an entry, so when all
\* toggles have completed every ancestor agrees with its descendants.
C2_TogglesSerialized ==
    [][ /\ EarlierToggleStillRuns => checkedItems' = checkedItems
        /\ (tasks # <<>> /\ tasks' = <<>>) => AncestorsConsistent' ]_vars

-----------------------------------------------------------------------------
(* The tree view: listings and searches over several trees, one search at a *)
(* time                                                                      *)

FsBase ==
    (FsRoot :> Dir) @@ (pP :> Dir) @@ (pA :> Dir) @@ (pAX :> File)
    @@ (pAYbin :> File) @@ (pB :> Dir) @@ (pBY :> File)

\* the tree of Scenario C
FsScenarioC ==
    (FsRoot :> Dir) @@ (pP :> Dir) @@ (pA :> Dir) @@ (pAX :> File)
    @@ (pB :> Dir) @@ (pBY :> File)

FsViewSet ==
    { FsScenarioC,
      FsBase @@ (pAZ :> File) @@ (pE :> Dir),
      FsBase @@ (pE :> Dir) @@ (pEYbin :> File),
      FsBase @@ (pE :> Dir) @@ (pEE :> Dir),
      FsBase @@ (pE :> Unreadable(Dir)) @@ (pEYbin :> File),
      FsBase @@ (pE :> Dir) @@ (pEE :> Unreadable(Dir)) }

InitView == \E f \in FsViewSet : InitWith(f, <<pP>>)

ViewTerms == {<<>>, <<"x">>, <<"X">>, <<"z">>, <<"a">>, <<"e">>}

\* the directories of the Roots
ViewDirs == {d \in DOMAIN fs : IsDirectory(d) /\ \E r \in Range(feRoots) : IsUnder(d, r)}

ViewRuleFiles == {<<nP, nPromptcodeIgnore>>}
ViewContents == {NoFile, RuleFile(rcADir)}

NextView ==
    \/ \E i \in 1..Len(reloads) : ReloadStep(i)
    \/ \E i \in 1..Len(rebuilds) : RebuildStep(i)
    \/ Idle /\ \E term \in ViewTerms : SetSearchTerm(term)
    \/ \E d \in ViewDirs : Shown(d) /\ GetChildren(d)
    \/ Idle /\ \E path \in ViewRuleFiles, rec \in ViewContents : EditRuleFile(path, rec)

SpecView == InitView /\ [][NextView]_vars

\* the directory, or a non-ignored directory beneath it, cannot be read
RECURSIVE HasUnreadableDir(_)
HasUnreadableDir(d) ==
    \/ ~ReaddirOk(d)
    \/ \E e \in Range(Entries(d)) :
          ~shouldIgnore(e) /\ IsDirectory(e) /\ HasUnreadableDir(e)

-----------------------------------------------------------------------------
(* C8, C9: the inclusion set and the filtered listing *)

\* a rebuildSearchPaths call returns in this step
RebuildCompletes == rebuilds # <<>> /\ rebuilds' = <<>>

\* the non-ignored entries beneath the Roots
NonIgnoredEntries ==
    {e \in DOMAIN fs : NoIgnoredPrefix(e) /\ \E r \in Range(feRoots) : IsUnder(e, r) /\ e # r}

\* the path and its ancestors up to (and including) its Root
UpToRoot(e) == {SubSeq(e, 1, k) : k \in Len(RootOf(e))..Len(e)}

\* the path and all its ancestors, the filesystem root included
UpToFsRoot(e) == {SubSeq(e, 1, k) : k \in 0..Len(e)}

\* the entries the search reaches: beneath a Root that can be read, through
\* non-ignored directories that can be read and are not effectively empty
RECURSIVE Reached(_)
Reached(d) ==
    IF ~ReaddirOk(d) THEN {}
    ELSE LET kids == {e \in Range(Entries(d)) : ~shouldIgnore(e)} IN
         kids \cup UNION {Reached(k) :
                            k \in {e \in kids : IsDirectory(e)
                                                /\ ~isDirectoryEffectivelyEmpty(e)}}

NameMatches(e) == IsMatch(Basename(e), searchTerm)

\* the inclusion set made of the matches M: the matches, their ancestors
\* (up(m)) and a sentinel for each matching directory
OverlayOf(M, up(_)) ==
    UNION {up(m) : m \in M} \cup {DirMatchKey(m) : m \in {e \in M : IsDirectory(e)}}

UnderSentinel(c) ==
    \E k \in 1..(Len(c) - 1) : DirMatchKey(SubSeq(c, 1, k)) \in includedPaths

Included(c) == c \in includedPaths \/ UnderSentinel(c)

\* the filtered children of d: what readdir reports, non-ignored and, for a
\* directory, not effectively empty
FilteredChildren(d) ==
    IF ~ReaddirOk(d) THEN {}
    ELSE {c \in Range(Entries(d)) :
            ~shouldIgnore(c) /\ (IsDirectory(c) => ~isDirectoryEffectivelyEmpty(c))}

\* C9: while a non-empty query is active getChildren(D) returns exactly the
\* filtered children of D that are in the inclusion set or have a
\* directory-match sentinel above them, and nothing when D itself is not
\* included; when the query is empty it returns every filtered child.
C9_ListingFollowsOverlay ==
    reloads = <<>> =>
        \A d \in ViewDirs :
            Range(getChildren(d)) =
                IF IsBlank(searchTerm) THEN FilteredChildren(d)
                ELSE IF Included(d) THEN {c \in FilteredChildren(d) : Included(c)}
                ELSE {}

\* the search for "z" has completed and /p/a was listed: Z.md is returned,
\* x.txt is a filtered child that is not
C9_Witness ==
    /\ searchTerm = <<"z">>
    /\ rebuilds = <<>>
    /\ listing # <<>>
    /\ listing.dir = pA
    /\ listing.items = <<pAZ>>
    /\ pAX \in FilteredChildren(pA)

-----------------------------------------------------------------------------
(* Searches in flight together: promptcode.filterFiles runs setSearchTerm   *)
(* for every change of the search box, without waiting for the earlier call *)

InitSearchConc == InitWith(FsScenarioC, <<pP>>)

ConcTerms == {<<>>, <<"x">>, <<"a">>}

NextSearchConc ==
    \/ \E i \in 1..Len(reloads) : ReloadStep(i)
    \/ \E i \in 1..Len(rebuilds) : RebuildStep(i)
    \/ /\ reloads = <<>>
       /\ Len(rebuilds) < MaxRebuilds
       /\ \E term \in ConcTerms : SetSearchTerm(term)
    \/ \E d \in ViewDirs : Shown(d) /\ GetChildren(d)

SpecSearchConc == InitSearchConc /\ [][NextSearchConc]_vars

\* C10: once the query is cleared every non-ignored, non-empty entry is listed
\* again and the inclusion set holds no entry until the next non-empty query
\* is set, also when a rebuild started for an earlier query is still running.
C10_ClearedOverlayStaysEmpty ==
    (IsBlank(searchTerm) /\ reloads = <<>>) =>
        /\ includedPaths = {}
        /\ \A d \in ViewDirs : Range(getChildren(d)) = FilteredChildren(d)

-----------------------------------------------------------------------------
(* The weight cache: queries, file changes, saves, clears and restarts *)

cAB  == <<"a", " ", "b">>
cABC == <<"a", "b", "c">>
cA   == <<"a">>

v100 == <<"1", ".", "0", ".", "0">>
v110 == <<"1", ".", "1", ".", "0">>

CacheContents == {cAB, cABC, cA}
CacheVersions == {v100, v110, Undefined}

FilesCache == (pAX :> [content |-> cAB, mtime |-> 0]) @@ (pBY :> [content |-> cA, mtime |-> 0])

InitCache ==
    /\ InitTree(FsScenarioC, <<>>)
    /\ files = FilesCache
    /\ clock = 0
    /\ tokenCache = EmptyMap
    /\ diskCache = NoDoc
    /\ extensionVersion = v100
    /\ saveCacheTimer = FALSE
    /\ timeouts = 0
    /\ cacheOps = <<CacheOp("load", "access", NoDoc)>>
    /\ queries = <<>>
    /\ answers = NoAnswer

\* one weight query at a time, while the file is written, deleted and
\* chmod-ed between its steps; the document is not saved
NextCache ==
    \/ queries = <<>> /\ \E filePath \in {pAX, pBY} : CountTokensWithCache(filePath)
    \/ \E i \in 1..Len(queries) : QueryStep(i)
    \/ \E i \in 1..Len(cacheOps) : CacheOpStep(i)
    \/ clock < MaxClock /\ \E content \in CacheContents : WriteFile(pAX, content)
    \/ DeleteFile(pAX)
    \/ \E b \in BOOLEAN : SetReadable(pAX, b)

SpecCache == InitCache /\ [][NextCache]_vars

\* the weight of the file's content as it is now, 0 when it cannot be read
LiveWeight(filePath) ==
    IF IsFile(filePath) /\ fs[filePath].ok THEN countTokens(files[filePath].content) ELSE 0

\* the cache holds an entry for the path whose size and mtime both equal the
\* live stat
EntryMatchesStat(filePath) ==
    /\ filePath \in DOMAIN tokenCache
    /\ tokenCache[filePath].size = Len(files[filePath].content)
    /\ tokenCache[filePath].mtime = files[filePath].mtime

\* C11: countTokensWithCache(path) returns the cached weight without
\* re-reading the file if and only if the cache holds an entry for the path
\* whose size and mtime both equal the live stat; otherwise the weight is
\* recomputed from the file's content and the entry is replaced with the new
\* weight and the size and mtime of that stat.
C11_HitIffSizeAndMtimeMatch ==
    [][ /\ (queries # <<>> /\ queries[1].phase = "stat" /\ queries' # queries
              /\ StatOk(queries[1].path)) =>
            IF EntryMatchesStat(queries[1].path)
            THEN /\ queries' = <<>>
                 /\ answers'.how = "hit"
                 /\ answers'.count = tokenCache[queries[1].path].count
                 /\ tokenCache' = tokenCache
            ELSE /\ queries' # <<>>
                 /\ queries'[1].phase = "read"
        /\ (queries # <<>> /\ queries[1].phase = "read" /\ queries' = <<>>) =>
            /\ answers'.how = "miss"
            /\ answers'.count = LiveWeight(queries[1].path)
            /\ tokenCache'[queries[1].path] =
                   [count |-> LiveWeight(queries[1].path),
                    mtime |-> queries[1].stats.mtime, size |-> queries[1].stats.size]
      ]_vars

\* Scenario D: the entry of x.txt had the file's size but an older mtime; the
\* query recomputed the weight and replaced the entry
C11_Witness ==
    /\ queries = <<>>
    /\ answers.path = pAX
    /\ answers.how = "miss"
    /\ answers.old # <<>>
    /\ answers.old[1].size = Stats(pAX).size
    /\ answers.old[1].mtime # Stats(pAX).mtime
    /\ answers.old[1].count # answers.count
    /\ EntryMatchesStat(pAX)

-----------------------------------------------------------------------------
(* The cache document: saves, loads at restart under the same or another    *)
(* version, clears; one weight query at a time                              *)

NextPersist ==
    \/ queries = <<>> /\ \E filePath \in {pAX, pBY} : CountTokensWithCache(filePath)
    \/ \E i \in 1..Len(queries) : QueryStep(i)
    \/ \E i \in 1..Len(cacheOps) : CacheOpStep(i)
    \/ Len(cacheOps) < MaxCacheOps /\ SaveTimerFires
    \/ \E ev \in CacheVersions : InitializeTokenCounter(ev)
    \/ DeleteFile(pAX)

SpecPersist == InitCache /\ [][NextPersist]_vars

-----------------------------------------------------------------------------
(* Clearing the cache while saves are scheduled or under way               *)

NextClear ==
    \/ queries = <<>> /\ \E filePath \in {pAX, pBY} : CountTokensWithCache(filePath)
    \/ \E i \in 1..Len(queries) : QueryStep(i)
    \/ \E i \in 1..Len(cacheOps) : CacheOpStep(i)
    \/ Len(cacheOps) < MaxCacheOps /\ SaveTimerFires
    \/ Len(cacheOps) < MaxCacheOps /\ ClearTokenCache
    \/ clock < MaxClock /\ WriteFile(pAX, cABC)

SpecClear == InitCache /\ [][NextClear]_vars

-----------------------------------------------------------------------------
\* the load started by initializeTokenCounter is still under way
Loading == \E i \in 1..Len(cacheOps) : cacheOps[i].kind = "load"

\* the step in which loadCacheFromDisk reads and applies the document
LoadApplies ==
    \E i \in 1..Len(cacheOps) :
        /\ cacheOps[i].kind = "load" /\ cacheOps[i].phase = "read"
        /\ cacheOps' = RemoveAt(cacheOps, i)

\* the document on disk was written under another version than the running one
VersionDiffers == diskCache # NoDoc /\ diskCache.extensionVersion # extensionVersion

\* C12: loading a document whose extensionVersion differs from the running
\* version leaves the memory cache empty, and it stays empty until a query
\* resolves; a query for a path without an entry whose stat succeeds
\* recomputes the weight from the live content, stores it and arms the save
\* timer (a new document is scheduled).
C12_VersionMismatchDiscards ==
    /\ [](( ~Loading /\ answers.how = "none" /\ VersionDiffers) => tokenCache = EmptyMap)
    /\ [][ /\ (LoadApplies /\ VersionDiffers) => tokenCache' = EmptyMap
           /\ \A i \in 1..Len(queries) :
                (/\ queries[i].phase = "stat"
                 /\ queries[i].path \notin DOMAIN tokenCache
                 /\ StatOk(queries[i].path)
                 /\ queries' # queries)
                => IF queries' = <<>> THEN answers'.how = "none"   \* the host restarted
                   ELSE Len(queries') = Len(queries) /\ queries'[i].phase = "read"
           /\ (answers' # answers /\ answers'.how = "miss")
                => /\ answers'.count = LiveWeight(answers'.path)
                   /\ answers'.path \in DOMAIN tokenCache'
                   /\ tokenCache'[answers'.path].count = answers'.count
                   /\ saveCacheTimer'
         ]_vars

\* Scenario E: a document with entries written under 1.0.0, the host restarted
\* under 1.1.0, the load finished, and the first query was a miss that armed
\* the save timer
C12_Witness ==
    /\ extensionVersion = v110
    /\ diskCache # NoDoc /\ diskCache.extensionVersion = v100 /\ diskCache.entries # <<>>
    /\ ~Loading
    /\ answers.how = "miss" /\ answers.old = <<>>
    /\ saveCacheTimer

-----------------------------------------------------------------------------
\* the version tag saveCacheToDisk writes under the running version
WrittenTag == IF extensionVersion = Undefined THEN <<"0", ".", "0", ".", "0">>
              ELSE extensionVersion

\* the step in which saveCacheToDisk builds the text of the document: the text
\* holds the entry of every path of the memory cache, and nothing else, under
\* the tag of the running version
SnapshotFaithful ==
    \A i \in 1..Len(cacheOps) :
        (/\ cacheOps[i].kind = "save" /\ cacheOps[i].phase = "mkdir"
         /\ Len(cacheOps') = Len(cacheOps)
         /\ cacheOps'[i].kind = "save" /\ cacheOps'[i].phase = "write")
        => /\ cacheOps'[i].data.extensionVersion = WrittenTag
           /\ Range(cacheOps'[i].data.entries)
                = {<<k, tokenCache[k]>> : k \in DOMAIN tokenCache}

\* the step in which the text is written: the document is that text
WriteFaithful ==
    \A i \in 1..Len(cacheOps) :
        (/\ cacheOps[i].kind = "save" /\ cacheOps[i].phase = "write"
         /\ cacheOps' = RemoveAt(cacheOps, i))
        => diskCache' = cacheOps[i].data

\* the load restores, for every file of the document that still exists with
\* the size and mtime of its entry, that entry
Restored ==
    \A pair \in Range(diskCache.entries) :
        (Exists(pair[1]) /\ Stats(pair[1]).size = pair[2].size
                         /\ Stats(pair[1]).mtime = pair[2].mtime)
        => /\ pair[1] \in DOMAIN tokenCache'
           /\ tokenCache'[pair[1]] = pair[2]

\* a query whose stat finds the entry's size and mtime is a hit with the
\* entry's weight
UnchangedIsHit ==
    \A i \in 1..Len(queries) :
        (/\ queries[i].phase = "stat" /\ queries' # queries
         /\ StatOk(queries[i].path) /\ EntryMatchesStat(queries[i].path))
        => /\ answers'.how = "hit"
           /\ answers'.path = queries[i].path
           /\ answers'.count = tokenCache[queries[i].path].count

\* the step is a restart of the extension host (no step of a query or of an
\* operation on the document leads to this state: a save is only under way
\* after a query of the same session has resolved)
HostRestarts ==
    /\ cacheOps' = <<CacheOp("load", "access", NoDoc)>>
    /\ queries' = <<>> /\ tokenCache' = EmptyMap
    /\ answers'.how = "none" /\ ~saveCacheTimer'

-----------------------------------------------------------------------------
\* the unlink started by clearTokenCache is still under way
Unlinking == \E i \in 1..Len(cacheOps) : cacheOps[i].kind = "unlink"

\* C14: after clearTokenCache (its unlink done) and as long as no query has
\* stored a new entry, the memory cache holds no entry and there is no
\* document on disk; a query resolving in that period is not a hit.
C14_ClearedStaysCleared ==
    /\ []((answers.cleared /\ ~Unlinking) => (tokenCache = EmptyMap /\ diskCache = NoDoc))
    /\ [][ (answers.cleared /\ answers' # answers /\ answers'.cleared) => answers'.how # "hit" ]_vars

-----------------------------------------------------------------------------
(* Two Roots, files selected by toggles, the selected files weighed and     *)
(* shown by directory; one getSelectedFiles call at a time                  *)

FsAgg ==
    (FsRoot :> Dir) @@ (pP :> Dir) @@ (pA :> Dir) @@ (pAX :> File)
    @@ (pB :> Dir) @@ (pBY :> File) @@ (pP2 :> Dir) @@ (pP2A :> Dir) @@ (pP2AX :> File)

FilesAgg ==
    (pAX :> [content |-> cAB, mtime |-> 0]) @@ (pBY :> [content |-> cA, mtime |-> 0])
    @@ (pP2AX :> [content |-> cABC, mtime |-> 0])

AggItems == {pAX, pBY, pP2AX}

InitAgg ==
    /\ InitTree(FsAgg, <<pP2, pP>>)
    /\ files = FilesAgg
    /\ clock = 0
    /\ tokenCache = EmptyMap
    /\ diskCache = NoDoc
    /\ extensionVersion = v100
    /\ saveCacheTimer = FALSE
    /\ timeouts = 0
    /\ cacheOps = <<>>
    /\ queries = <<>>
    /\ answers = NoAnswer

AggAtRest == Idle /\ gets = <<>> /\ queries = <<>>

NextAgg ==
    \/ \E i \in 1..Len(reloads) : ReloadStep(i)
    \/ \E i \in 1..Len(tasks) : TaskStep(i)
    \/ AggAtRest /\ \E item \in AggItems, b \in BOOLEAN : Toggle(item, b)
    \/ AggAtRest /\ GetSelectedFiles
    \/ \E i \in 1..Len(queries) : QueryStep(i)
    \/ \E i \in 1..Len(gets) : PostSelectedFiles(i)
    \/ \E b \in BOOLEAN : SetReadable(pAX, b)

SpecAgg == InitAgg /\ [][NextAgg]_vars

-----------------------------------------------------------------------------
\* the sum of w[x] over the elements x of the finite set S
RECURSIVE SumOver(_, _)
SumOver(S, w) ==
    IF S = {} THEN 0
    ELSE LET x == CHOOSE y \in S : TRUE IN w[x] + SumOver(S \ {x}, w)

\* the i-th query resolves in this step
Resolves(i) == i \in 1..Len(queries) /\ queries' = RemoveAt(queries, i)

\* the message posted in this step reports, for the call that posted it,
\* every path of the call with the weight its query returned, and their sum
PostsWhatWasReturned ==
    \E i \in 1..Len(gets) :
        /\ gets' = RemoveAt(gets, i)
        /\ Len(panel'.selectedFiles) = Len(gets[i].paths)
        /\ \A k \in 1..Len(gets[i].paths) :
              /\ panel'.selectedFiles[k].absolutePath = gets[i].paths[k]
              /\ panel'.selectedFiles[k].tokenCount = gets[i].got[gets[i].paths[k]]
        /\ panel'.totalTokens = SumOver(Range(gets[i].paths), gets[i].got)

\* C15: a query whose file cannot be read when its weight is computed
\* resolves with 0 (it is delivered to the waiting getSelectedFiles call like
\* any other weight); the message then posted lists every selected file with
\* the weight its query returned and the sum of these weights, and a file
\* that was readable throughout is listed with the weight of its content.
C15_ReadErrorYieldsZero ==
    /\ [][ /\ \A i \in 1..Len(queries) :
                (Resolves(i) /\ queries[i].phase # "stat" /\ ~ReadFileOk(queries[i].path))
                => /\ answers'.path = queries[i].path /\ answers'.count = 0
                   /\ gets' = Deliver(gets, queries[i].path, 0)
           /\ Len(gets') < Len(gets) => PostsWhatWasReturned
         ]_vars
    /\ [](\A k \in 1..Len(panel.selectedFiles) :
             panel.selectedFiles[k].absolutePath # pAX
             => panel.selectedFiles[k].tokenCount
                  = countTokens(files[panel.selectedFiles[k].absolutePath].content))

\* x.txt could not be read while it was weighed: the message lists it with
\* weight 0 next to b/y.txt with its weight, and the total is their sum
C15_Witness ==
    /\ gets = <<>> /\ ~fs[pAX].ok
    /\ answers.path = pAX /\ answers.how = "miss" /\ answers.count = 0
    /\ Len(panel.selectedFiles) = 2
    /\ panel.selectedFiles[1].absolutePath = pAX /\ panel.selectedFiles[1].tokenCount = 0
    /\ panel.selectedFiles[2].absolutePath = pBY /\ panel.selectedFiles[2].tokenCount = 1
    /\ panel.totalTokens = 1

-----------------------------------------------------------------------------
\* the positions of the message's files whose immediate parent is directory d
InDirectory(d) ==
    {k \in 1..Len(panel.selectedFiles) : Dirname(panel.selectedFiles[k].absolutePath) = d}

\* the token counts of the message by position
TokenCounts == [k \in 1..Len(panel.selectedFiles) |-> panel.selectedFiles[k].tokenCount]

\* C16: in the message shown by the webview, the total is the sum of the
\* weights of the listed files, which are files and never directories; every
\* directory group's weight is the sum of the weights of the selected files
\* whose immediate parent is that directory; the groups' weights sum to the
\* total; and no group holds files of two different Roots. (That the listed
\* files are exactly the checked, non-ignored files is the step part.)
C16_TotalsByDirectory ==
    /\ [](LET dirs == SortedDirectories(panel)
          IN  /\ panel.totalTokens = SumOver(DOMAIN TokenCounts, TokenCounts)
              /\ \A k \in 1..Len(panel.selectedFiles) :
                    IsFile(panel.selectedFiles[k].absolutePath)
              /\ \A g \in 1..Len(dirs) :
                    /\ dirs[g].totalTokens
                         = SumOver(InDirectory(Dirname(dirs[g].files[1].absolutePath)),
                                   TokenCounts)
                    /\ \A f1, f2 \in Range(dirs[g].files) :
                          RootOf(f1.absolutePath) = RootOf(f2.absolutePath)
              /\ SumOver(1..Len(dirs), [g \in 1..Len(dirs) |-> dirs[g].totalTokens])
                   = panel.totalTokens)
    /\ [][ Len(gets') > Len(gets)
             => Range(gets'[Len(gets')].paths)
                  = {q \in DOMAIN checkedItems :
                        checkedItems[q] /\ IsFile(q) /\ ~shouldIgnore(q)} ]_vars

-----------------------------------------------------------------------------
\* a selection operation run to its end without interleaving: the map after
\* the last resumption of task r.t on the map r.ci
RECURSIVE RunToEnd(_)
RunToEnd(r) == IF Finished(r.t) THEN r.ci ELSE RunToEnd(StepTask(r.t, r.ci))

\* the map after toggling fullPath to isChecked on the map ci
Toggled(ci, fullPath, isChecked) ==
    RunToEnd([t |-> StartToggle(fullPath,
                                fullPath \in Range(feRoots) \/ IsDirectory(fullPath),
                                isChecked).t,
              ci |-> Put(ci, fullPath, isChecked)])

\* the proper ancestors of a path: all of them, and those inside its Root
Ancestors(q) == {SubSeq(q, 1, k) : k \in 0..(Len(q) - 1)}
AncestorsInRoot(q) == {a \in Ancestors(q) : \E r \in Range(feRoots) : IsUnder(a, r)}

\* C17: in a state with no operation under way, toggling a shown path to the
\* state it already has leaves the state of every ancestor of that path
\* unchanged (an absent entry counts as unchecked).
C17_NoopToggleKeepsAncestors ==
    Idle =>
        \A q \in DOMAIN fs :
            Shown(q) =>
                LET after == Toggled(checkedItems, q, IsChecked(checkedItems, q))
                IN  \A a \in Ancestors(q) : IsChecked(after, a) = IsChecked(checkedItems, a)

-----------------------------------------------------------------------------
\* the map after toggleAll(isChecked) on the current map
ToggledAll(isChecked) == RunToEnd(StartToggleAll(isChecked))

\* the map after toggling the Roots of the sequence roots to isChecked, one
\* after the other, starting from the map ci
RECURSIVE ToggledRoots(_, _, _)
ToggledRoots(ci, roots, isChecked) ==
    IF roots = <<>> THEN ci
    ELSE ToggledRoots(Toggled(ci, roots[1], isChecked), Tail(roots), isChecked)

\* C18: in a state with no operation under way, selectAll() (deselectAll())
\* leads to the same state of every path as toggling every active Root to
\* checked (unchecked), an absent entry counting as unchecked.
C18_ToggleAllEqualsRootToggles ==
    (Idle /\ feRoots # <<>>) =>
        \A b \in BOOLEAN :
            LET viaAll == ToggledAll(b)
                viaRoots == ToggledRoots(checkedItems, feRoots, b)
            IN  \A q \in DOMAIN viaAll \cup DOMAIN viaRoots :
                    IsChecked(viaAll, q) = IsChecked(viaRoots, q)

-----------------------------------------------------------------------------
\* C19: the last selection operation checked the directory /p/a (it was
\* shown, so no rule hid it then); when the reload that loaded the override
\* pattern `a/` for the Root /p and its cleanup sweep (with the ancestor
\* re-derivations it starts) have completed, neither /p/a nor any path
\* beneath it is checked.
C19_IgnoredDirectoryDropped ==
    (/\ Idle /\ obs.fresh
     /\ obs.op.kind = "toggle" /\ obs.op.item = pA /\ obs.op.checked
     /\ pP \in Range(feRoots)
     /\ pP \in DOMAIN promptcodeIgnores /\ promptcodeIgnores[pP] = rcADir)
    => \A q \in DOMAIN checkedItems : IsUnder(q, pA) => ~checkedItems[q]

-----------------------------------------------------------------------------
(* Listings while the rule set is reloaded: a tree with a directory-scoped  *)
(* rule file that stays as it is; the Root's .promptcode_ignore is edited,   *)
(* getChildren is called at any time                                        *)

rcB == <<Pat("name", nB)>>

FsReload ==
    FsScenarioC @@ (pAZ :> File) @@ (<<nP, nA, nGitignore>> :> RuleFile(rcX))

InitReload == InitWith(FsReload, <<pP>>)

ReloadRuleFiles == {<<nP, nPromptcodeIgnore>>}
ReloadContents == {NoFile, RuleFile(rcX), RuleFile(rcB)}

NextReload ==
    \/ \E i \in 1..Len(reloads) : ReloadStep(i)
    \/ \E d \in ViewDirs : Shown(d) /\ GetChildren(d)
    \/ Idle /\ \E path \in ReloadRuleFiles, rec \in ReloadContents : EditRuleFile(path, rec)

SpecReload == InitReload /\ [][NextReload]_vars

\* the rules of the rule file at path when the files are as they are now,
\* except the files of the map ov, which are as ov says: <<rules>>, or <<>>
\* when the file is missing or cannot be read
RulesAt(path, ov) ==
    LET rec == IF path \in DOMAIN ov THEN ov[path]
               ELSE IF Exists(path) THEN fs[path] ELSE NoFile
    IN  IF rec.kind = "file" /\ rec.ok THEN <<rec.rules>> ELSE <<>>

\* the complete rule set for these files: a root-level set for every Root, a
\* matcher for every directory of a Root that has a rule file
CompletePc(ov) ==
    [r \in Range(ihRoots) |->
        IF RulesAt(Join(r, nPromptcodeIgnore), ov) = <<>> THEN DEFAULT_IGNORE_PATTERNS
        ELSE RulesAt(Join(r, nPromptcodeIgnore), ov)[1]]
CompleteGit(ov) ==
    [d \in {x \in DOMAIN fs : /\ IsDirectory(x)
                              /\ \E r \in Range(ihRoots) : IsUnder(x, r)
                              /\ RulesAt(Join(x, nGitignore), ov) # <<>>}
        |-> RulesAt(Join(d, nGitignore), ov)[1]]

\* the rule files as they are now, and as they can have been before the one
\* edit that started the reload under way
RuleFileStates ==
    {EmptyMap} \cup {(path :> rec) : path \in ReloadRuleFiles, rec \in ReloadContents}

\* C20: a listing made while a reload started by refreshIgnoreHelper is under
\* way gets, for every entry of the listed directory, the verdict of a
\* complete rule set: the one of the rule files as they are now, or the one of
\* the rule files as they were before the edit that started the reload;
\* never a verdict that only a partially reloaded rule set gives.
C20_NoPartialVerdict ==
    [][ (/\ listing' # listing
         /\ \E i \in 1..Len(reloads) : reloads[i].cleanup)
        => \A e \in Range(Entries(listing'.dir)) :
              \E ov \in RuleFileStates :
                  shouldIgnore(e) = ShouldIgnoreWith(CompletePc(ov), CompleteGit(ov),
                                                     respectGitignore, e)
      ]_vars

-----------------------------------------------------------------------------
(* Rule files that cannot be read *)

\* the file at p is there and cannot be read
UnreadableFile(p) == IsFile(p) /\ ~fs[p].ok

\* a pattern that a load has read matches P: the root-level set of P's Root
\* (the override file when it could be read, the default deny-list otherwise)
\* or a readable rule file of a directory between P's parent and the Root
SuccessfullyLoadedMatch(P) ==
    \/ Ignores(ClaimedRootSet(RootOf(P)), RelTo(P, RootOf(P)))
    \/ \E D \in DirsUpToRoot(P) :
          /\ ReadFileOk(Join(D, nGitignore))
          /\ Ignores(fs[Join(D, nGitignore)].rules, RelTo(P, D))

\* C21: once a reload has completed, a Root it loaded whose override file
\* cannot be read has the default deny-list as its root-level set, a directory
\* whose rule file cannot be read has no matcher, and shouldIgnore is true for
\* no path that no successfully loaded pattern matches.
C21_UnreadableRuleFileIsAbsent ==
    Reloaded =>
        /\ \A R \in Range(ihRoots) :
              UnreadableFile(Join(R, nPromptcodeIgnore))
                  => /\ R \in DOMAIN promptcodeIgnores
                     /\ promptcodeIgnores[R] = DEFAULT_IGNORE_PATTERNS
        /\ respectGitignore =>
              \A D \in {pP, pA} :
                  UnreadableFile(Join(D, nGitignore)) => D \notin DOMAIN gitignores
        /\ \A P \in IgnPaths :
              (HasWorkspaceFolder(P) /\ RootOf(P) \in Range(ihRoots) /\ shouldIgnore(P))
                  => SuccessfullyLoadedMatch(P)

C21_Witness ==
    /\ Reloaded
    /\ respectGitignore
    /\ UnreadableFile(<<nP, nPromptcodeIgnore>>)
    /\ UnreadableFile(<<nP, nA, nGitignore>>)
    /\ ~shouldIgnore(pAX)
    /\ shouldIgnore(pAYbin)

-----------------------------------------------------------------------------
(* Toggles of items whose file has gone: the tree view keeps the FileItem it *)
(* was given until it asks for the children again                           *)

\* a file of the tree is deleted on disk; fileWatcher.onDidDelete calls
\* refresh(), which drops the cached directory entries
FileDeleted(filePath) ==
    /\ IsFile(filePath)
    /\ fs' = Without(fs, {filePath})
    /\ files' = Without(files, {filePath})
    /\ cachedEntries' = EmptyMap
    /\ obs' = [obs EXCEPT !.op = NoOp]
    /\ UNCHANGED <<wsFolders, cfgRespect, viewVars, ruleVars, feRoots, selVars, searchVars, listing,
                   aggVars, clock, tokenCache, diskCache, extensionVersion, saveCacheTimer, timeouts,
                   cacheOps, queries, answers>>

\* onDidChangeCheckboxState for a FileItem of a file that is no longer there
ToggleVanished(fullPath, isChecked) ==
    /\ ~Exists(fullPath)
    /\ \E r \in Range(feRoots) : IsUnder(fullPath, r)
    /\ LET r == StartToggle(fullPath, FALSE, isChecked)
       IN  /\ checkedItems' = r.ci
           /\ IF Finished(r.t)
              THEN tasks' = tasks /\ cachedEntries' = EmptyMap
              ELSE tasks' = Append(tasks, r.t) /\ UNCHANGED cachedEntries
    /\ obs' = [obs EXCEPT !.op = [kind |-> "toggle", item |-> fullPath,
                                 checked |-> isChecked]]
    /\ UNCHANGED <<cacheVars, fs, wsFolders, cfgRespect, viewVars, ruleVars, feRoots, searchVars, listing>>

StaleFiles == {pAX, pBY}

NextStale ==
    \/ \E i \in 1..Len(reloads) : ReloadStep(i)
    \/ \E i \in 1..Len(tasks) : TaskStep(i)
    \/ Idle /\ \E item \in SelPaths, b \in BOOLEAN : Toggle(item, b)
    \/ Idle /\ \E filePath \in StaleFiles : FileDeleted(filePath)
    \/ Idle /\ \E filePath \in StaleFiles, b \in BOOLEAN : ToggleVanished(filePath, b)

SpecStale == InitSel /\ [][NextStale]_vars

\* the last operation was a toggle of a path that is not on disk, and it has
\* completed
VanishedToggled == Idle /\ obs.op.kind = "toggle" /\ ~Exists(obs.op.item)

\* the directories from the parent of q up to its Root agree with the states
\* of their non-ignored children
AncestorsRederived(q) ==
    \A d \in AncestorsInRoot(q) :
        LET childStates == GetChildrenStates(checkedItems, d) IN
        childStates # {} => (IsChecked(checkedItems, d) <=> TRUE \in childStates)

\* C22: after a toggle of a path that no longer exists on disk has completed,
\* SelectionState holds no entry for that path, and the ancestors of the path
\* have the states derived from their children.
C22_VanishedPathDropped ==
    VanishedToggled =>
        /\ obs.op.item \notin DOMAIN checkedItems
        /\ AncestorsRederived(obs.op.item)

-----------------------------------------------------------------------------
(* The order of a listing *)

FsList ==
    FsBase @@ (pAZ :> File) @@ (<<nP, nA, nGitignore>> :> RuleFile(<<>>))

InitList == InitWith(FsList, <<pP>>)

ListRuleFiles == {<<nP, nPromptcodeIgnore>>, <<nP, nGitignore>>}
ListContents == {NoFile, RuleFile(rcB), RuleFile(<<>>)}

NextList ==
    \/ \E i \in 1..Len(reloads) : ReloadStep(i)
    \/ \E d \in ViewDirs : Shown(d) /\ GetChildren(d)
    \/ Idle /\ \E path \in ListRuleFiles, rec \in ListContents : EditRuleFile(path, rec)

SpecList == InitList /\ [][NextList]_vars

\* the characters of the model's names in the order of their code units
CodeUnitOrder ==
    << ".", "2", "Z", "_", "a", "b", "c", "d", "e", "g", "i", "l", "m", "n", "o", "p",
       "r", "s", "t", "u", "x", "y" >>
Rank(c) == CHOOSE i \in 1..Len(CodeUnitOrder) : CodeUnitOrder[i] = c

\* name a comes before name b in lexicographic order
RECURSIVE NameLess(_, _)
NameLess(a, b) ==
    IF b = <<>> THEN FALSE
    ELSE IF a = <<>> THEN TRUE
    ELSE IF a[1] = b[1] THEN NameLess(Tail(a), Tail(b))
    ELSE Rank(a[1]) < Rank(b[1])

\* in the listing no file comes before a directory
DirectoriesFirst(items) ==
    \A i, j \in 1..Len(items) :
        (i < j /\ IsDirectory(items[j])) => IsDirectory(items[i])

\* in the listing two entries of the same kind come in the order of their names
SortedWithinGroups(items) ==
    \A i, j \in 1..Len(items) :
        (i < j /\ (IsDirectory(items[i]) <=> IsDirectory(items[j])))
            => NameLess(Basename(items[i]), Basename(items[j]))

\* C23: what getChildren returned for a directory has all directories before
\* all files, and within the directories and within the files the entries are
\* in lexicographic order by name.
C23_ListingOrder ==
    listing # <<>> =>
        /\ DirectoriesFirst(listing.items)
        /\ SortedWithinGroups(listing.items)

-----------------------------------------------------------------------------
(* Entries above a Root *)

\* the keys whose entry a step creates or changes
Written ==
    {q \in DOMAIN checkedItems' :
        q \notin DOMAIN checkedItems \/ checkedItems'[q] # checkedItems[q]}

\* C24: every SelectionState key that a step of a toggle, a cascade, a
\* deselect or an ancestor re-derivation creates or changes is the path of an
\* active Root or of a path beneath one; no entry is created or changed for a
\* directory above a Root.
C24_NoEntryAboveRoot ==
    [][ \A q \in Written : \E r \in Range(feRoots) : IsUnder(q, r) ]_vars

-----------------------------------------------------------------------------
(* Two Roots, one a string prefix of the other: toggles and Root removal    *)

InitRoots == InitWith(FsAgg, <<pP, pP2>>)

RootsItems == {pP, pAX, pBY, pP2, pP2AX}

NextRoots ==
    \/ \E i \in 1..Len(reloads) : ReloadStep(i)
    \/ \E i \in 1..Len(tasks) : TaskStep(i)
    \/ Idle /\ \E item \in RootsItems, b \in BOOLEAN : Toggle(item, b)
    \/ Idle /\ \E root \in {pP, pP2} : RemoveRoot(root)
    \/ Idle /\ \E root \in {pP, pP2} : AddRoot(root)

SpecRoots == InitRoots /\ [][NextRoots]_vars

\* the entries of the map ci for the Roots in roots and the paths beneath them
EntriesOfRoots(ci, roots) ==
    [q \in {x \in DOMAIN ci : \E r \in roots : IsUnder(x, r)} |-> ci[q]]

\* C25: a step that removes a Root deletes every SelectionState entry for that
\* Root and for the paths beneath it and leaves the entries of every Root that
\* stays active as they were, also when the path of such a Root begins with
\* the removed Root's path as a string (/p2 when /p is removed).
C25_RootRemovalFrame ==
    [][ \A removed \in Range(feRoots) \ Range(feRoots') :
            /\ EntriesOfRoots(checkedItems', {removed}) = EmptyMap
            /\ EntriesOfRoots(checkedItems', Range(feRoots'))
                   = EntriesOfRoots(checkedItems, Range(feRoots'))
      ]_vars

-----------------------------------------------------------------------------
(* The debounced flush: queries, file modifications, the timer and the      *)
(* saves it starts; a pending timeout fires and a started file operation    *)
(* completes                                                                *)

TimerFires == Len(cacheOps) < MaxCacheOps /\ SaveTimerFires

NextFlush ==
    \/ queries = <<>> /\ \E filePath \in {pAX, pBY} : CountTokensWithCache(filePath)
    \/ \E i \in 1..Len(queries) : QueryStep(i)
    \/ \E i \in 1..Len(cacheOps) : CacheOpStep(i)
    \/ TimerFires
    \/ clock < MaxClock /\ WriteFile(pAX, cABC)

SpecFlush ==
    /\ InitCache
    /\ [][NextFlush]_vars
    /\ WF_vars(TimerFires)
    /\ WF_vars(\E i \in 1..Len(cacheOps) : CacheOpStep(i))

\* a step stores a cache entry (countTokensWithCache after a miss)
CacheUpdate == tokenCache' # tokenCache /\ answers'.how = "miss" /\ answers' # answers

\* a step starts saveCacheToDisk
FlushStarts ==
    /\ Len(cacheOps') = Len(cacheOps) + 1
    /\ cacheOps'[Len(cacheOps')].kind = "save"

\* the document on disk holds the entry the memory cache has for the path
EntryWritten(filePath) ==
    /\ filePath \in DOMAIN tokenCache
    /\ <<filePath, tokenCache[filePath]>> \in Range(diskCache.entries)

\* C26: at most one flush timer is pending at any time, and saveCacheTimer is
\* set exactly while it is; every cache update leaves exactly one pending
\* timer (the pending one is cancelled, a new one scheduled), so after any
\* number of updates with no timer firing between them a single flush starts
\* and no timer stays behind it; and every entry the cache holds while the
\* timer is pending (every update leaves it pending) is eventually in the
\* document on disk, unless the cache has dropped it.
C26_FlushDebounced ==
    /\ [](timeouts <= 1 /\ (saveCacheTimer <=> timeouts = 1))
    /\ [][ /\ CacheUpdate => (saveCacheTimer' /\ timeouts' = 1)
           /\ FlushStarts => (timeouts = 1 /\ timeouts' = 0 /\ ~saveCacheTimer') ]_vars
    /\ \A filePath \in {pAX, pBY} :
          (timeouts = 1 /\ filePath \in DOMAIN tokenCache)
              ~> (EntryWritten(filePath) \/ filePath \notin DOMAIN tokenCache)

\* two updates with no flush between them have left one pending timer and
\* nothing on disk yet
C26_Witness ==
    /\ DOMAIN tokenCache = {pAX, pBY}
    /\ diskCache = NoDoc
    /\ cacheOps = <<>>
    /\ timeouts = 1

-----------------------------------------------------------------------------
(* Writers of the cache document *)

\* the operations in flight that change the document: a saveCacheToDisk call
\* whose writeFile is outstanding, a clearTokenCache whose unlink is
Writing ==
    {i \in 1..Len(cacheOps) :
        \/ cacheOps[i].kind = "unlink"
        \/ cacheOps[i].kind = "save" /\ cacheOps[i].phase = "write"}

\* C27: no saveCacheToDisk call has its write outstanding while the write of
\* another call or the deletion of a clearTokenCache is outstanding: a flush
\* that writes is the only operation changing the document.
C27_SingleWriter ==
    \A i \in Writing : cacheOps[i].kind = "save" => Writing = {i}

-----------------------------------------------------------------------------
(* Entries of files that were removed *)

\* the file is gone and the last query that resolved was one for it: its stat
\* was rejected and the call was answered by the fallback
RemovalNoticed(filePath) ==
    /\ ~Exists(filePath)
    /\ answers.path = filePath
    /\ answers.how = "fallback"

\* a step in which saveCacheToDisk builds the document it writes
Snapshot(i) ==
    /\ i \in 1..Len(cacheOps) /\ i \in 1..Len(cacheOps')
    /\ cacheOps[i].kind = "save" /\ cacheOps[i].phase = "mkdir"
    /\ cacheOps'[i].kind = "save" /\ cacheOps'[i].phase = "write"

\* C28: once the removal of a file has been noticed (a query for it found it
\* gone), the memory cache holds no entry for the file, and the document
\* saveCacheToDisk builds from then on has no entry for it.
C28_RemovedFileEntryDeleted ==
    /\ [](RemovalNoticed(pAX) => pAX \notin DOMAIN tokenCache)
    /\ [][ \A i \in 1..Len(cacheOps) :
              (RemovalNoticed(pAX) /\ Snapshot(i))
                  => \A k \in 1..Len(cacheOps'[i].data.entries) :
                         cacheOps'[i].data.entries[k][1] # pAX ]_vars

-----------------------------------------------------------------------------
(* getSelectedFiles beside rule reloads: the command runs whenever the panel *)
(* or a completed toggle asks for it, also while a reload is under way      *)

InitGet ==
    /\ InitTree(FsScenarioC, <<pP>>)
    /\ files = FilesCache
    /\ clock = 0
    /\ tokenCache = EmptyMap
    /\ diskCache = NoDoc
    /\ extensionVersion = v100
    /\ saveCacheTimer = FALSE
    /\ timeouts = 0
    /\ cacheOps = <<>>
    /\ queries = <<>>
    /\ answers = NoAnswer

GetContents == {NoFile, RuleFile(rcX)}

NextGet ==
    \/ \E i \in 1..Len(reloads) : ReloadStep(i)
    \/ \E i \in 1..Len(tasks) : TaskStep(i)
    \/ AggAtRest /\ \E item \in {pAX, pBY}, b \in BOOLEAN : Toggle(item, b)
    \/ AggAtRest /\ \E rec \in GetContents : EditRuleFile(<<nP, nPromptcodeIgnore>>, rec)
    \/ tasks = <<>> /\ gets = <<>> /\ queries = <<>> /\ GetSelectedFiles
    \/ \E i \in 1..Len(queries) : QueryStep(i)
    \/ \E i \in 1..Len(gets) : PostSelectedFiles(i)

SpecGet == InitGet /\ [][NextGet]_vars

\* a step of a getSelectedFiles run: the command starts, one of its weight
\* queries resumes, or its message is posted
GetSelectedFilesStep == gets' # gets \/ queries' # queries \/ panel' # panel

\* C29: no step of a getSelectedFiles run changes a SelectionState entry,
\* whatever the ignore rules are when it runs.
C29_GetSelectedFilesReadsOnly ==
    [][ GetSelectedFilesStep => checkedItems' = checkedItems ]_vars

-----------------------------------------------------------------------------
(* The setting promptcode.respectGitignore *)

\* the minimal hardcoded excludes: version-control and dependency directories
HardcodedExcludes == <<Pat("dir", nNodeModules), Pat("dir", nDotGit)>>

\* a readable rule file of a directory between P's parent and its Root
\* matches P
DirectoryRuleMatch(P) ==
    \E D \in DirsUpToRoot(P) :
        /\ ReadFileOk(Join(D, nGitignore))
        /\ Ignores(fs[Join(D, nGitignore)].rules, RelTo(P, D))

\* after a completed reload under the setting "on" the directory-scoped rule
\* files apply: a path of a loaded Root that one of them matches is ignored
DirectoryRulesApply ==
    (Reloaded /\ cfgRespect) =>
        \A P \in IgnPaths :
            (HasWorkspaceFolder(P) /\ RootOf(P) \in Range(ihRoots) /\ DirectoryRuleMatch(P))
                => shouldIgnore(P)

-----------------------------------------------------------------------------
(* The search box beside the selection: promptcode.filterFiles while files  *)
(* are checked and the panel asks for the selected files                    *)

QueryTerms == {<<>>, <<"y">>}

NextQuery ==
    \/ \E i \in 1..Len(reloads) : ReloadStep(i)
    \/ \E i \in 1..Len(tasks) : TaskStep(i)
    \/ \E i \in 1..Len(rebuilds) : RebuildStep(i)
    \/ AggAtRest /\ \E item \in {pAX, pBY}, b \in BOOLEAN : Toggle(item, b)
    \/ AggAtRest /\ \E term \in QueryTerms : SetSearchTerm(term)
    \/ reloads = <<>> /\ tasks = <<>> /\ gets = <<>> /\ queries = <<>> /\ GetSelectedFiles
    \/ \E i \in 1..Len(queries) : QueryStep(i)
    \/ \E i \in 1..Len(gets) : PostSelectedFiles(i)

SpecQuery == InitGet /\ [][NextQuery]_vars

\* a step of setSearchTerm: the query is set, or a rebuild of the overlay resumes
SearchStep ==
    searchTerm' # searchTerm \/ includedPaths' # includedPaths \/ rebuilds' # rebuilds

\* a getSelectedFiles run starts
GetStarts == Len(gets') = Len(gets) + 1

\* the checked files, as the Selection Store holds them
CheckedFiles == {q \in DOMAIN checkedItems : checkedItems[q] /\ IsFile(q)}

\* C31: setting, changing or clearing the search query changes no
\* SelectionState entry, and every checked (non-ignored) file is part of the
\* selected-file list of every getSelectedFiles run, whether the query hides
\* it or not.
C31_QueryLeavesSelection ==
    /\ [][ SearchStep => checkedItems' = checkedItems ]_vars
    /\ [][ GetStarts =>
              \A q \in CheckedFiles :
                  ~shouldIgnore(q) => q \in Range(gets'[Len(gets')].paths) ]_vars

\* x.txt was checked, the query "y" has been applied and hides it, and a
\* getSelectedFiles run made under the query lists it
C31_Witness ==
    /\ ~IsBlank(searchTerm) /\ rebuilds = <<>>
    /\ pAX \in CheckedFiles
    /\ Shown(pBY) /\ ~Shown(pAX)
    /\ gets # <<>> /\ pAX \in Range(gets[1].paths)

-----------------------------------------------------------------------------
\* C32: the overlay is built fresh per query: once every setSearchTerm call
\* has completed, the latest one included, the inclusion set a listing uses
\* holds only matches, ancestors and sentinels of the latest query, and no
\* entry contributed by the rebuild of an earlier query.
C32_OverlayOfLatestQuery ==
    (~IsBlank(searchTerm) /\ rebuilds = <<>> /\ reloads = <<>>) =>
        includedPaths \subseteq
            OverlayOf({e \in UNION {Reached(r) : r \in Range(feRoots)} : NameMatches(e)},
                      UpToFsRoot)

-----------------------------------------------------------------------------
(* Auto-expand: the search box with the timer of setSearchTerm and the      *)
(* expandMatchingDirectories call it starts                                 *)

ExpandTerms == {<<>>, <<"y">>, <<"a">>}

NextExpandMatch ==
    \/ \E i \in 1..Len(reloads) : ReloadStep(i)
    \/ \E i \in 1..Len(rebuilds) : RebuildStep(i)
    \/ ExpandTimerFires
    \/ \E i \in 1..Len(sweeps) : SweepStep(i)
    \/ /\ Idle /\ ~expandTimer /\ sweeps = <<>>
       /\ \E term \in ExpandTerms : SetSearchTerm(term)
    \/ \E d \in ViewDirs : Shown(d) /\ GetChildren(d)

InitExpandMatch == InitWith(FsScenarioC, <<pP>>)

SpecExpandMatch == InitExpandMatch /\ [][NextExpandMatch]_vars

\* the directory is marked expanded
IsExpanded(d) == d \in DOMAIN expandedItems /\ expandedItems[d]

\* a non-empty query has been applied: its rebuild, its timer and the
\* expansion the timer started have completed
QueryApplied == ~IsBlank(searchTerm) /\ Idle /\ ~expandTimer /\ sweeps = <<>>

\* the matches of the query
QueryMatches == {e \in UNION {Reached(r) : r \in Range(feRoots)} : NameMatches(e)}

\* C33: after a non-empty query has been applied, every ancestor directory
\* on the path from a Root to each match, matches that are files included,
\* is marked expanded.
C33_AncestorsOfMatchesExpanded ==
    QueryApplied =>
        \A e \in QueryMatches : \A d \in UpToRoot(e) \ {e} : IsExpanded(d)

-----------------------------------------------------------------------------
(* Expand all: promptcode.expandAll on a small tree and on a tree with more *)
(* directories than the sweep's limit, while items are toggled and the user *)
(* collapses directories                                                    *)

FsWide ==
    (FsRoot :> Dir) @@ (pP :> Dir)
    @@ [p \in {pD(i) : i \in 0..(WideCount - 1)} |-> Dir]
    @@ [p \in {pDF(i) : i \in 0..(WideCount - 1)} |-> File]

InitExpandAll == \E f \in {FsScenarioC, FsWide} : InitWith(f, <<pP>>)

\* treeView.onDidCollapseElement
ElementCollapsed(d) ==
    /\ expandedItems' = Put(expandedItems, d, FALSE)
    /\ UNCHANGED <<cacheVars, fs, wsFolders, cfgRespect, expandTimer, sweeps, reads, ruleVars,
                   feRoots, selVars, searchVars, listVars, obs>>

NextExpandAll ==
    \/ \E i \in 1..Len(reloads) : ReloadStep(i)
    \/ \E i \in 1..Len(tasks) : TaskStep(i)
    \/ \E i \in 1..Len(sweeps) : SweepStep(i)
    \/ reloads = <<>> /\ Len(sweeps) < MaxSweeps /\ ExpandAll
    \/ /\ reloads = <<>> /\ tasks = <<>>
       /\ \E item \in {pAX, pDF(0)}, b \in BOOLEAN : Toggle(item, b)
    \/ IsExpanded(pP) /\ ElementCollapsed(pP)

SpecExpandAll == InitExpandAll /\ [][NextExpandAll]_vars

\* the directories of the batches a sweep has still to process
ToDo(w) == UNION {Range(w.todo[k].dirs) : k \in 2..Len(w.todo)}
               \cup (IF w.phase = "collect" \/ w.todo = <<>> THEN {}
                     ELSE IF w.phase = "delay" THEN Range(w.todo[1].dirs) ELSE {})

\* the directories a step marks as expanded, and those it unmarks
NewlyExpanded == {d \in DOMAIN expandedItems' : expandedItems'[d] /\ ~IsExpanded(d)}
NoLongerExpanded == {d \in DOMAIN expandedItems : expandedItems[d]
                        /\ ~(d \in DOMAIN expandedItems' /\ expandedItems'[d])}

\* C34: an expandAll sweep marks at most 99 directories as expanded,
\* shallower directories before deeper ones; at every point of the sweep,
\* also when it goes no further, no step of it has unmarked a directory and
\* no step of it has changed a SelectionState entry.
C34_ExpandAllBounded ==
    /\ [](\A i \in 1..Len(sweeps) :
             LET w == sweeps[i] IN
             /\ Len(w.done) <= 99
             /\ \A j, k \in 1..Len(w.done) : j < k => Depth(w.done[j]) <= Depth(w.done[k])
             /\ \A d \in Range(w.done), e \in ToDo(w) : Depth(d) <= Depth(e))
    /\ [][ sweeps' # sweeps =>
              /\ checkedItems' = checkedItems
              /\ NoLongerExpanded = {}
              /\ NewlyExpanded \subseteq
                    UNION {Range(sweeps'[i].done) : i \in 1..Len(sweeps')} ]_vars

\* the sweep found more directories than its limit and has marked 99 of
\* them, while an item is checked
C34_Witness ==
    /\ \E i \in 1..Len(sweeps) :
          /\ sweeps[i].kind = "all"
          /\ sweeps[i].found > 99
          /\ Len(sweeps[i].done) = 99
          /\ \A d \in Range(sweeps[i].done) : IsExpanded(d)
    /\ \E q \in DOMAIN checkedItems : checkedItems[q]

-----------------------------------------------------------------------------
\* C35: a weight returned from the cache on a hit for a file that can be read
\* equals the weight that recomputing from the file's current content would
\* return; a read failure
\* that yields 0 leaves no entry that makes a later query return 0 for the
\* file once it is readable again, unchanged in size and mtime.
C35_HitEqualsRecompute ==
    [][ \A i \in 1..Len(queries) :
          (Resolves(i) /\ answers'.how = "hit" /\ ReadFileOk(queries[i].path)) =>
              answers'.count = countTokens(files[queries[i].path].content) ]_vars

-----------------------------------------------------------------------------
(* Listings while files come and go: the tree view asks for children, the   *)
(* readdir is awaited, and the file watcher refreshes in between            *)

FsRead == FsScenarioC @@ (pAZ :> File)

NextRead ==
    \/ \E i \in 1..Len(reloads) : ReloadStep(i)
    \/ /\ Len(reads) < MaxReads
       /\ \E d \in ViewDirs : Shown(d) /\ GetChildrenStart(d)
    \/ \E i \in 1..Len(reads) : ReadStep(i)
    \/ \E d \in ViewDirs : Shown(d) /\ GetChildren(d)
    \/ FileDeleted(pAX)
    \/ FileCreated(pAX)

InitRead == InitWith(FsRead, <<pP>>)

SpecRead == InitRead /\ [][NextRead]_vars

\* a getChildren call made in this step returns at once
ListedAtOnce == listing' # listing /\ reads' = reads

\* C36: after refresh() has cleared the listing cache, the cache holds no
\* directory entries that were read before that refresh, and a getChildren
\* call made afterwards returns no entry that was read before it: a readdir
\* started before the refresh and resumed after it does not put its older
\* result into the cache.
C36_NoStaleListingAfterRefresh ==
    /\ [](\A d \in DOMAIN cachedEntries : cachedEntries[d] = Dirents(Entries(d)))
    /\ [][ ListedAtOnce => \A e \in Range(listing'.items) : Exists(e) ]_vars

-----------------------------------------------------------------------------
\* C37: every active Root has a root-level pattern set, a Root added after
\* startup as well: once a reload started after the latest change has
\* completed, shouldIgnore ignores every path under a Root that the Root's
\* override file or, without one, the default deny-list matches.
C37_EveryRootHasRootLevelSet ==
    Reloaded =>
        \A R \in Range(wsFolders) :
            \A P \in {Q \in IgnPaths : IsUnder(Q, R) /\ RootOf(Q) = R} :
                Ignores(ClaimedRootSet(R), RelTo(P, R)) => shouldIgnore(P)

-----------------------------------------------------------------------------
(* Two Roots /p and /p2, each with directory-scoped rule files, in both     *)
(* processing orders                                                        *)

FsTwoRoots ==
    FsAgg @@ (<<nP, nA, nGitignore>> :> RuleFile(rcX))
          @@ (<<nP2, nGitignore>> :> RuleFile(rcX))

InitTwoRoots == \E roots \in {<<pP, pP2>>, <<pP2, pP>>} : InitWith(FsTwoRoots, roots)

TwoRootsRuleFiles ==
    {<<nP, nA, nGitignore>>, <<nP2, nGitignore>>, <<nP2, nA, nGitignore>>}

NextTwoRoots ==
    \/ \E i \in 1..Len(reloads) : ReloadStep(i)
    \/ Idle /\ \E path \in TwoRootsRuleFiles, rec \in {NoFile, RuleFile(rcX), RuleFile(rcTxtNotX)} :
                   EditRuleFile(path, rec)
    \/ Idle /\ \E b \in BOOLEAN : SetRespectGitignore(b)

SpecTwoRoots == InitTwoRoots /\ [][NextTwoRoots]_vars

\* the directories under an active Root that hold a readable .gitignore
RuleFileDirs ==
    {dir \in DOMAIN fs :
        /\ IsDirectory(dir)
        /\ \E R \in Range(ihRoots) : IsUnder(dir, R)
        /\ ReadFileOk(Join(dir, nGitignore))}

\* at rest with rule-file honoring enabled, every such directory has a matcher
RuleFilesLoaded ==
    (reloads = <<>> /\ respectGitignore) => RuleFileDirs \subseteq DOMAIN gitignores

\* C38: when no initialize() call is in flight and rule-file honoring is
\* enabled, every directory under an active Root that holds a .gitignore has
\* a loaded matcher, in whatever order the Roots are processed; and no step
\* of a reload that is processing one Root removes the matcher of a directory
\* that lies under another Root only.
C38_EveryRuleFileHasMatcher ==
    /\ []RuleFilesLoaded
    /\ [][ \A i \in 1..Len(reloads) :
             (reloads[i].phase = "pc" /\ reloads' # reloads /\ Len(reloads') = Len(reloads))
                => \A dir \in DOMAIN gitignores \ DOMAIN gitignores' :
                       IsUnder(dir, reloads[i].roots[1]) ]_vars

-----------------------------------------------------------------------------
(* Overlapping reloads: the .gitignore of /p/a is edited while earlier      *)
(* initialize() calls are still in flight                                   *)

FsOverlap == FsScenarioC @@ (<<nP, nA, nGitignore>> :> RuleFile(rcX))

InitOverlap == InitWith(FsOverlap, <<pP>>)

OverlapContents == {NoFile, RuleFile(rcX), RuleFile(rcTxtNotX)}

NextOverlap ==
    \/ \E i \in 1..Len(reloads) : ReloadStep(i)
    \/ \E i \in 1..Len(reloads) : RuleFileRead(i)
    \/ /\ tasks = <<>>
       /\ Len(reloads) < MaxReloads
       /\ \E rec \in OverlapContents : EditRuleFile(<<nP, nA, nGitignore>>, rec)

SpecOverlap == InitOverlap /\ [][NextOverlap]_vars

\* C39: every edit of a rule file starts a reload, so the latest-started
\* reload reads the rule files as they are now; once every initialize() call
\* has completed, the loaded matchers are those of the rule files as they are
\* now: no matcher an older reload wrote from an earlier content is left, and
\* none that the latest reload wrote is missing.
C39_LatestReloadWins ==
    reloads = <<>> => gitignores = CompleteGit(EmptyMap)

-----------------------------------------------------------------------------
(* deselectAll beside files that vanish and come back                       *)

InitDeselect == InitWith(FsScenarioC, <<pP>>)

NextDeselect ==
    \/ \E i \in 1..Len(reloads) : ReloadStep(i)
    \/ \E i \in 1..Len(tasks) : TaskStep(i)
    \/ AggAtRest /\ \E item \in {pAX, pBY}, b \in BOOLEAN : Toggle(item, b)
    \/ AggAtRest /\ \E b \in BOOLEAN : ToggleAll(b)
    \/ AggAtRest /\ FileDeleted(pAX)
    \/ AggAtRest /\ FileCreated(pAX)
    \/ tasks = <<>> /\ gets = <<>> /\ queries = <<>> /\ GetSelectedFiles
    \/ \E i \in 1..Len(queries) : QueryStep(i)
    \/ \E i \in 1..Len(gets) : PostSelectedFiles(i)

SpecDeselect == InitDeselect /\ [][NextDeselect]_vars

\* deselectAll() has completed and no toggle or selectAll was made since
Deselected == tasks = <<>> /\ obs.op.kind = "all" /\ ~obs.op.checked

\* while so, every promptcode.getSelectedFiles call collects an empty list
DeselectedListEmpty ==
    [][ (Deselected /\ GetStarts) => gets'[Len(gets')].paths = <<>> ]_vars

\* C40: once deselectAll() has completed, and until the next toggle or
\* selectAll, no SelectionState entry is checked and every
\* promptcode.getSelectedFiles call collects an empty list, also after files
\* were created or restored in the meantime.
C40_DeselectAllClears ==
    /\ [](Deselected => \A q \in DOMAIN checkedItems : ~checkedItems[q])
    /\ DeselectedListEmpty

====
